---- MODULE Spec2Model ----
(***************************************************************************)
(* Position-to-archetype pipeline of the astro-medical system.             *)
(*                                                                         *)
(* Two programs are modelled:                                              *)
(*   astro_step4_ultimate_api_fixed.py  (the JSON API, Swiss Ephemeris)    *)
(*   app.py                             (the HTML form app, PyEphem)       *)
(*                                                                         *)
(* Notation.  TLA+ strings are ASCII, so the Japanese literals of the      *)
(* source are written as follows (one name per literal, injectively):      *)
(*   elements  '火' '地' '風' '水'          -> "Fire" "Earth" "Air" "Water"  *)
(*   '不明'                                 -> "Unknown_element"            *)
(*   '未知の星座'                           -> "Unknown_sign"               *)
(*   '不明な元型'                           -> "Unknown_archetype"          *)
(*   '牡羊座' ... '魚座'                    -> "ja.Aries" ... "ja.Pisces"   *)
(*   'The Geyser（間欠泉）' etc.            -> "The Geyser" etc. (the gloss  *)
(*                                            in brackets is dropped)      *)
(*   prefecture names                      -> their usual romanisation     *)
(* Angles are fixed-point numbers with Decimals decimal digits: the        *)
(* integer x stands for x / Unit degrees.  Values rounded with round(x, 2) *)
(* are integers in hundredths, percentages rounded with round(x, 1) are    *)
(* integers in tenths of a percent.                                        *)
(***************************************************************************)
EXTENDS Integers, Sequences, FiniteSets, TLC

VARIABLES
    pc,        \* position of the operation under way: "start", "astro", "done"
    request,   \* the arguments of the operation (what the caller supplies)
    response,  \* what the operation returned (None before it returns)
    calls      \* the external calls made so far, in order

vars == <<pc, request, response, calls>>

(***************************************************************************)
(* Bounds of the model                                                     *)
(***************************************************************************)
\* decimal digits of the fixed-point longitudes
Decimals == 3
\* full turns below 0 and above 360 degrees among the classified longitudes
MaxTurns == 1
\* largest number of bodies for which the ephemeris provider fails at once
MaxFailing == 2

Unit == 10 ^ Decimals

\* Python's None
None == [none |-> TRUE]

\* no field, no body: the name that names nothing
NoName == ""

\* dict.get(key, default)
DictGet(d, key, default) == IF key \in DOMAIN d THEN d[key] ELSE default

\* the empty dict
EmptyDict == [k \in {} |-> None]

\* nearest integer to num / den (den > 0), ties to the even neighbour: what
\* Python's round() yields on a value that is exactly representable
RoundHalfEven(num, den) ==
    LET q == num \div den
        r == num % den
    IN  IF 2 * r < den THEN q
        ELSE IF 2 * r > den THEN q + 1
        ELSE IF q % 2 = 0 THEN q ELSE q + 1

\* round(x, 2) of an angle: from 1/Unit degrees to hundredths of a degree
round2(x) == RoundHalfEven(x * 100, Unit)

(***************************************************************************)
(* Static tables of astro_step4_ultimate_api_fixed.py                      *)
(***************************************************************************)
Elements == {"Fire", "Earth", "Air", "Water"}

signs ==
    << "ja.Aries", "ja.Taurus", "ja.Gemini", "ja.Cancer", "ja.Leo", "ja.Virgo",
       "ja.Libra", "ja.Scorpio", "ja.Sagittarius", "ja.Capricorn", "ja.Aquarius",
       "ja.Pisces" >>

\* faulty variant: the two Libra entries carry the element of the next sign
SIGN_ELEMENTS_Libra_Water ==
    [ s \in { signs[i] : i \in 1..12 } \cup
            { "Aries", "Taurus", "Gemini", "Cancer", "Leo", "Virgo", "Libra",
              "Scorpio", "Sagittarius", "Capricorn", "Aquarius", "Pisces" } |->
        IF s \in {"ja.Aries", "Aries", "ja.Leo", "Leo", "ja.Sagittarius", "Sagittarius"}
        THEN "Fire"
        ELSE IF s \in {"ja.Taurus", "Taurus", "ja.Virgo", "Virgo", "ja.Capricorn",
                       "Capricorn"}
        THEN "Earth"
        ELSE IF s \in {"ja.Gemini", "Gemini", "ja.Aquarius", "Aquarius"}
        THEN "Air"
        ELSE "Water" ]

SIGN_ELEMENTS ==
    [ k \in {} |-> "" ]
    @@ ("ja.Aries" :> "Fire")        @@ ("Aries" :> "Fire")
    @@ ("ja.Taurus" :> "Earth")      @@ ("Taurus" :> "Earth")
    @@ ("ja.Gemini" :> "Air")        @@ ("Gemini" :> "Air")
    @@ ("ja.Cancer" :> "Water")      @@ ("Cancer" :> "Water")
    @@ ("ja.Leo" :> "Fire")          @@ ("Leo" :> "Fire")
    @@ ("ja.Virgo" :> "Earth")       @@ ("Virgo" :> "Earth")
    @@ ("ja.Libra" :> "Air")         @@ ("Libra" :> "Air")
    @@ ("ja.Scorpio" :> "Water")     @@ ("Scorpio" :> "Water")
    @@ ("ja.Sagittarius" :> "Fire")  @@ ("Sagittarius" :> "Fire")
    @@ ("ja.Capricorn" :> "Earth")   @@ ("Capricorn" :> "Earth")
    @@ ("ja.Aquarius" :> "Air")      @@ ("Aquarius" :> "Air")
    @@ ("ja.Pisces" :> "Water")      @@ ("Pisces" :> "Water")

\* faulty variant: the entry of (Water, Water) was left out
ARCHETYPE_DATABASE_15 ==
    [ k \in {} |-> "" ]
    @@ (<<"Fire", "Fire">> :> "The Supernova")
    @@ (<<"Fire", "Earth">> :> "The Magma")
    @@ (<<"Fire", "Air">> :> "The Evangelist")
    @@ (<<"Fire", "Water">> :> "The Geyser")
    @@ (<<"Earth", "Fire">> :> "The Volcano")
    @@ (<<"Earth", "Earth">> :> "The Bedrock")
    @@ (<<"Earth", "Air">> :> "The Garden")
    @@ (<<"Earth", "Water">> :> "The Spring")
    @@ (<<"Air", "Fire">> :> "The Lightning")
    @@ (<<"Air", "Earth">> :> "The Breeze")
    @@ (<<"Air", "Air">> :> "The Hurricane")
    @@ (<<"Air", "Water">> :> "The Mist")
    @@ (<<"Water", "Fire">> :> "The Steam")
    @@ (<<"Water", "Earth">> :> "The River")
    @@ (<<"Water", "Air">> :> "The Rain")

ARCHETYPE_DATABASE ==
    [ k \in {} |-> "" ]
    @@ (<<"Fire", "Fire">> :> "The Supernova")
    @@ (<<"Fire", "Earth">> :> "The Magma")
    @@ (<<"Fire", "Air">> :> "The Evangelist")
    @@ (<<"Fire", "Water">> :> "The Geyser")
    @@ (<<"Earth", "Fire">> :> "The Volcano")
    @@ (<<"Earth", "Earth">> :> "The Bedrock")
    @@ (<<"Earth", "Air">> :> "The Garden")
    @@ (<<"Earth", "Water">> :> "The Spring")
    @@ (<<"Air", "Fire">> :> "The Lightning")
    @@ (<<"Air", "Earth">> :> "The Breeze")
    @@ (<<"Air", "Air">> :> "The Hurricane")
    @@ (<<"Air", "Water">> :> "The Mist")
    @@ (<<"Water", "Fire">> :> "The Steam")
    @@ (<<"Water", "Earth">> :> "The River")
    @@ (<<"Water", "Air">> :> "The Rain")
    @@ (<<"Water", "Water">> :> "The Ocean")

\* the seven bodies, in the insertion order of planet_ids
planet_ids == << "sun", "moon", "mercury", "venus", "mars", "jupiter", "saturn" >>

Bodies == { planet_ids[i] : i \in 1..Len(planet_ids) }

(***************************************************************************)
(* Sign/element classifier of astro_step4_ultimate_api_fixed.py            *)
(***************************************************************************)
get_sign_name_japanese(sign_num) ==
    IF 0 <= sign_num /\ sign_num < 12 THEN signs[sign_num + 1] ELSE "Unknown_sign"

\* faulty variant: the sector found by rounding instead of flooring
sign_num_of_rounded(longitude) == (longitude + 15 * Unit) \div (30 * Unit)

\* sign_num = int(longitude // 30)
sign_num_of(longitude) == longitude \div (30 * Unit)

\* degree_in_sign = longitude % 30
degree_in_sign_of(longitude) == longitude % (30 * Unit)

\* calc_ut is what swe.calc_ut did: [ok |-> TRUE, longitude |-> L] or a raised
\* exception [ok |-> FALSE].  The result is the returned dict, or None.
calculate_planet_position(calc_ut) ==
    IF ~calc_ut.ok THEN None
    ELSE LET longitude == calc_ut.longitude
             sign_num == sign_num_of(longitude)
             degree_in_sign == degree_in_sign_of(longitude)
             sign_name == get_sign_name_japanese(sign_num)
             element == DictGet(SIGN_ELEMENTS, sign_name, "Unknown_element")
         IN  [ sign |-> sign_name,
               degree |-> round2(degree_in_sign),
               longitude |-> round2(longitude),
               element |-> element ]

(***************************************************************************)
(* Classifier and archetype lookup of app.py                               *)
(***************************************************************************)
signs_en ==
    << "Aries", "Taurus", "Gemini", "Cancer", "Leo", "Virgo",
       "Libra", "Scorpio", "Sagittarius", "Capricorn", "Aquarius", "Pisces" >>

get_zodiac_sign(longitude) == signs_en[((longitude \div (30 * Unit)) % 12) + 1]

elements ==
    [ k \in {} |-> "" ]
    @@ ("Aries" :> "Fire")   @@ ("Leo" :> "Fire")      @@ ("Sagittarius" :> "Fire")
    @@ ("Taurus" :> "Earth") @@ ("Virgo" :> "Earth")   @@ ("Capricorn" :> "Earth")
    @@ ("Gemini" :> "Air")   @@ ("Libra" :> "Air")     @@ ("Aquarius" :> "Air")
    @@ ("Cancer" :> "Water") @@ ("Scorpio" :> "Water") @@ ("Pisces" :> "Water")

get_element(sign) == DictGet(elements, sign, "Fire")

combinations ==
    [ k \in {} |-> "" ]
    @@ (<<"Fire", "Fire">> :> "Warrior")
    @@ (<<"Fire", "Earth">> :> "Builder")
    @@ (<<"Fire", "Air">> :> "Catalyst")
    @@ (<<"Fire", "Water">> :> "Intuitive")
    @@ (<<"Earth", "Fire">> :> "Pioneer")
    @@ (<<"Earth", "Earth">> :> "Guardian")
    @@ (<<"Earth", "Air">> :> "Analyst")
    @@ (<<"Earth", "Water">> :> "Nurturer")
    @@ (<<"Air", "Fire">> :> "Innovator")
    @@ (<<"Air", "Earth">> :> "Organizer")
    @@ (<<"Air", "Air">> :> "Communicator")
    @@ (<<"Air", "Water">> :> "Harmonizer")
    @@ (<<"Water", "Fire">> :> "Transformer")
    @@ (<<"Water", "Earth">> :> "Stabilizer")
    @@ (<<"Water", "Air">> :> "Mediator")
    @@ (<<"Water", "Water">> :> "Mystic")

get_sixteen_archetype(sun_element, moon_element) ==
    DictGet(combinations, <<sun_element, moon_element>>, "Unknown")

\* ephem is what the PyEphem computation did: the two longitudes, or a raised
\* exception [ok |-> FALSE]; the except branch substitutes fixed values
calculate_planetary_positions(ephem) ==
    IF ephem.ok
    THEN [ sun_longitude |-> ephem.sun_longitude,
           moon_longitude |-> ephem.moon_longitude,
           sun_sign |-> get_zodiac_sign(ephem.sun_longitude),
           moon_sign |-> get_zodiac_sign(ephem.moon_longitude),
           sun_element |-> get_element(get_zodiac_sign(ephem.sun_longitude)),
           moon_element |-> get_element(get_zodiac_sign(ephem.moon_longitude)),
           sun_degree |-> ephem.sun_longitude % (30 * Unit),
           moon_degree |-> ephem.moon_longitude % (30 * Unit) ]
    ELSE [ sun_longitude |-> 0,
           moon_longitude |-> 0,
           sun_sign |-> "Aries",
           moon_sign |-> "Aries",
           sun_element |-> "Fire",
           moon_element |-> "Fire",
           sun_degree |-> 0,
           moon_degree |-> 0 ]

(***************************************************************************)
(* SpecClassify: the classifiers applied to longitudes                     *)
(***************************************************************************)
\* whole degrees every 15 degrees, MaxTurns turns below 0 and above 360,
\* each with a fraction just above, and just below the next, hundredth
LonSamples ==
    { (15 * j) * Unit + f : j \in (-24 * MaxTurns) .. (24 * (MaxTurns + 1)),
                            f \in {0, 4, Unit - 4} }

MoonSamples ==
    { 5 * Unit, 95 * Unit + 4, 185 * Unit, 275 * Unit, 359 * Unit + (Unit - 4),
      (-85) * Unit, 365 * Unit }

ClassifyRequests ==
    { [ok |-> FALSE, sun_longitude |-> 0, moon_longitude |-> 0] }
    \cup [ ok : {TRUE}, sun_longitude : LonSamples, moon_longitude : MoonSamples ]

InitClassify ==
    /\ pc = "start"
    /\ request \in ClassifyRequests
    /\ response = None
    /\ calls = << >>

\* calculate_planet_position on the longitude the provider gave for one body
ClassifyPlanetPosition ==
    /\ pc = "start"
    /\ \E body \in {"sun", "moon"} :
         LET calc_ut == IF request.ok
                        THEN [ok |-> TRUE,
                              longitude |-> IF body = "sun" THEN request.sun_longitude
                                            ELSE request.moon_longitude]
                        ELSE [ok |-> FALSE]
         IN  /\ response' = [ op |-> "calculate_planet_position",
                              body |-> body,
                              calc_ut |-> calc_ut,
                              sign_num |-> IF calc_ut.ok
                                           THEN sign_num_of(calc_ut.longitude) ELSE None,
                              degree_in_sign |-> IF calc_ut.ok
                                                 THEN degree_in_sign_of(calc_ut.longitude)
                                                 ELSE None,
                              position |-> calculate_planet_position(calc_ut) ]
             /\ calls' = Append(calls, [fn |-> "calc_ut", body |-> body, ok |-> calc_ut.ok])
    /\ pc' = "done"
    /\ UNCHANGED request

\* app.py: calculate_planetary_positions as basic_diagnosis calls it
ClassifyPlanetaryPositions ==
    /\ pc = "start"
    /\ response' = [ op |-> "calculate_planetary_positions",
                     astro_data |-> calculate_planetary_positions(request) ]
    /\ calls' = Append(calls, [fn |-> "ephem", body |-> "sun+moon", ok |-> request.ok])
    /\ pc' = "astro"
    /\ UNCHANGED request

\* app.py: the archetype of the computed elements, as basic_diagnosis calls it
ClassifyArchetype ==
    /\ pc = "astro"
    /\ response' = [ op |-> "get_sixteen_archetype",
                     astro_data |-> response.astro_data,
                     archetype |-> get_sixteen_archetype(response.astro_data.sun_element,
                                                         response.astro_data.moon_element) ]
    /\ pc' = "done"
    /\ UNCHANGED <<request, calls>>

NextClassify ==
    \/ ClassifyPlanetPosition
    \/ ClassifyPlanetaryPositions
    \/ ClassifyArchetype

SpecClassify == InitClassify /\ [][NextClassify]_vars

(***************************************************************************)
(* Archetype resolution and element balance of                             *)
(* astro_step4_ultimate_api_fixed.py.  A planets mapping is a dict from    *)
(* body names to body dicts; of a body dict only the key 'element' is read.*)
(***************************************************************************)
\* faulty variant: the two components of the key taken in the other order
archetype_lookup_moon_first(sun_element, moon_element) ==
    DictGet(ARCHETYPE_DATABASE, <<moon_element, sun_element>>, "Unknown_archetype")

\* ARCHETYPE_DATABASE.get((sun_element, moon_element), '不明な元型')
archetype_lookup(sun_element, moon_element) ==
    DictGet(ARCHETYPE_DATABASE, <<sun_element, moon_element>>, "Unknown_archetype")

\* faulty variant: round(x) instead of round(x, 1)
round1_to_integer(count, total) == 10 * RoundHalfEven(count * 100, total)

\* round(count / total * 100, 1), in tenths of a percent
round1(count, total) == RoundHalfEven(count * 1000, total)

\* the number of bodies of the mapping whose element, read with the given
\* default for a missing key, is e
CountElement(planets, e, default) ==
    Cardinality({ b \in DOMAIN planets : DictGet(planets[b], "element", default) = e })

\* faulty variant: the last share is what the others leave of 100
inline_element_balance_renormalised(planets) ==
    LET total_planets == Cardinality(DOMAIN planets)
        share(e) == IF total_planets > 0
                    THEN round1(CountElement(planets, e, "Unknown_element"), total_planets)
                    ELSE 0
    IN  [ e \in Elements |->
            IF e = "Water" /\ total_planets > 0
            THEN 1000 - (share("Fire") + share("Earth") + share("Air"))
            ELSE share(e) ]

\* the balance computed inline in simple_diagnosis
inline_element_balance(planets) ==
    LET element_counts == [ e \in Elements |-> CountElement(planets, e, "Unknown_element") ]
        total_planets == Cardinality(DOMAIN planets)
    IN  [ e \in Elements |->
            IF total_planets > 0 THEN round1(element_counts[e], total_planets) ELSE 0 ]

calculate_element_balance(planets) ==
    LET counted == [ e \in Elements |-> CountElement(planets, e, "Fire") ]
        total == counted["Fire"] + counted["Earth"] + counted["Air"] + counted["Water"]
    IN  IF total > 0
        THEN [ e \in Elements |-> round1(counted[e], total) ]
        ELSE [ e \in Elements |-> 250 ]

\* an error response: jsonify({'success': False, 'error': ...}), status
ErrorResponse(status, error, arg) ==
    [ status |-> status, success |-> FALSE, error |-> error, arg |-> arg ]

\* the handler of /api/simple-diagnosis on the request body data; text is what
\* generate_diagnosis_text returned (the generated text or its fallback text)
simple_diagnosis(data, text) ==
    IF "name" \notin DOMAIN data \/ "planets" \notin DOMAIN data
    THEN ErrorResponse(400, "missing_data", "")
    ELSE LET planets == data.planets
         IN  IF "sun" \notin DOMAIN planets \/ "moon" \notin DOMAIN planets
             THEN ErrorResponse(400, "sun_moon_required", "")
             ELSE IF \/ "element" \notin DOMAIN planets["sun"]
                     \/ "element" \notin DOMAIN planets["moon"]
             THEN \* KeyError, caught by the handler's except
                  ErrorResponse(500, "exception", "KeyError")
             ELSE LET sun_element == planets["sun"]["element"]
                      moon_element == planets["moon"]["element"]
                  IN  [ status |-> 200,
                        success |-> TRUE,
                        archetype |-> archetype_lookup(sun_element, moon_element),
                        element_balance |-> inline_element_balance(planets),
                        diagnosis_text |-> text,
                        sun_element |-> sun_element,
                        moon_element |-> moon_element ]

(***************************************************************************)
(* SpecProfile: the archetype and the balance of client-supplied planets   *)
(***************************************************************************)
\* the body dicts of the requests: no 'element' key, or any element value
BodyDicts ==
    { EmptyDict } \cup { [element |-> e] : e \in Elements \cup {"Unknown_element"} }

\* body dicts as calculate_planets returns them for provider longitudes
ValidBodyDicts == { [element |-> e] : e \in Elements }

\* sun, moon and mercury carry any body dict, the other bodies a valid one
AnyDictBodies == { "sun", "moon", "mercury" }

\* the planets mappings over the bodies D
PlanetsChoice(D) ==
    { f @@ g : f \in [D \cap AnyDictBodies -> BodyDicts],
               g \in [D \ AnyDictBodies -> ValidBodyDicts] }

\* the request bodies: name and planets, where planets holds any of sun and
\* moon with the first m of the five other bodies; or one of the two keys only
IsProfileRequest(data) ==
    \/ \E A \in SUBSET {"sun", "moon"}, m \in 0 .. (Len(planet_ids) - 2) :
         \E planets \in PlanetsChoice(A \cup { planet_ids[i] : i \in 3 .. (2 + m) }) :
            data = [name |-> "name", planets |-> planets]
    \/ data = [name |-> "name"]
    \/ data = [planets |-> [b \in {"sun", "moon"} |-> [element |-> "Fire"]]]

InitProfile ==
    /\ pc = "start"
    /\ IsProfileRequest(request)
    /\ response = None
    /\ calls = << >>

SimpleDiagnosis ==
    /\ pc = "start"
    /\ \E gemini_ok \in BOOLEAN :
         LET text == IF gemini_ok THEN "response.text" ELSE "fallback text"
             r == simple_diagnosis(request, text)
         IN  /\ response' = [op |-> "simple_diagnosis"] @@ r
             /\ calls' = IF r.success
                         THEN Append(calls, [fn |-> "generate_content", body |-> "",
                                             ok |-> gemini_ok])
                         ELSE calls
    /\ pc' = "done"
    /\ UNCHANGED request

CalculateElementBalance ==
    /\ pc = "start"
    /\ "planets" \in DOMAIN request
    /\ response' = [ op |-> "calculate_element_balance",
                     element_balance |-> calculate_element_balance(request.planets) ]
    /\ pc' = "done"
    /\ UNCHANGED <<request, calls>>

NextProfile ==
    \/ SimpleDiagnosis
    \/ CalculateElementBalance

SpecProfile == InitProfile /\ [][NextProfile]_vars

(***************************************************************************)
(* The position pipeline of astro_step4_ultimate_api_fixed.py:             *)
(* input validation, time normalisation, position resolution.             *)
(*                                                                         *)
(* A JSON value of a date/time field is [t, v]: an integer ("int"), a      *)
(* string of decimal digits such as '2024' ("str", v its number), another  *)
(* string ("text") or null ("null").                                       *)
(***************************************************************************)
\* the 47 prefectures; the coordinates are in 1/10000 degree (no handler reads
\* them after the lookup)
PREFECTURE_COORDINATES ==
    [ k \in {} |-> << >> ]
    @@ ("Hokkaido" :> <<430642, 1413469>>)
    @@ ("Aomori-ken" :> <<408244, 1407400>>)
    @@ ("Iwate-ken" :> <<397036, 1411527>>)
    @@ ("Miyagi-ken" :> <<382682, 1408721>>)
    @@ ("Akita-ken" :> <<397186, 1401024>>)
    @@ ("Yamagata-ken" :> <<382404, 1403633>>)
    @@ ("Fukushima-ken" :> <<377503, 1404676>>)
    @@ ("Ibaraki-ken" :> <<363418, 1404468>>)
    @@ ("Tochigi-ken" :> <<365657, 1398836>>)
    @@ ("Gunma-ken" :> <<363911, 1390608>>)
    @@ ("Saitama-ken" :> <<358617, 1396455>>)
    @@ ("Chiba-ken" :> <<356074, 1401065>>)
    @@ ("Tokyo-to" :> <<356762, 1396503>>)
    @@ ("Kanagawa-ken" :> <<354478, 1396425>>)
    @@ ("Niigata-ken" :> <<379026, 1390232>>)
    @@ ("Toyama-ken" :> <<366959, 1372113>>)
    @@ ("Ishikawa-ken" :> <<365946, 1366256>>)
    @@ ("Fukui-ken" :> <<360652, 1362217>>)
    @@ ("Yamanashi-ken" :> <<356642, 1385683>>)
    @@ ("Nagano-ken" :> <<366513, 1381810>>)
    @@ ("Gifu-ken" :> <<353912, 1367223>>)
    @@ ("Shizuoka-ken" :> <<349756, 1383828>>)
    @@ ("Aichi-ken" :> <<351802, 1369066>>)
    @@ ("Mie-ken" :> <<347303, 1365086>>)
    @@ ("Shiga-ken" :> <<350045, 1358686>>)
    @@ ("Kyoto-fu" :> <<350211, 1357556>>)
    @@ ("Osaka-fu" :> <<346937, 1355023>>)
    @@ ("Hyogo-ken" :> <<346913, 1351830>>)
    @@ ("Nara-ken" :> <<346851, 1358048>>)
    @@ ("Wakayama-ken" :> <<342261, 1351675>>)
    @@ ("Tottori-ken" :> <<355038, 1342384>>)
    @@ ("Shimane-ken" :> <<354723, 1330505>>)
    @@ ("Okayama-ken" :> <<346617, 1339341>>)
    @@ ("Hiroshima-ken" :> <<343963, 1324596>>)
    @@ ("Yamaguchi-ken" :> <<341859, 1314706>>)
    @@ ("Tokushima-ken" :> <<340658, 1345594>>)
    @@ ("Kagawa-ken" :> <<343401, 1340434>>)
    @@ ("Ehime-ken" :> <<338416, 1327657>>)
    @@ ("Kochi-ken" :> <<335597, 1335311>>)
    @@ ("Fukuoka-ken" :> <<336064, 1304181>>)
    @@ ("Saga-ken" :> <<332494, 1302989>>)
    @@ ("Nagasaki-ken" :> <<327503, 1298677>>)
    @@ ("Kumamoto-ken" :> <<327898, 1307417>>)
    @@ ("Oita-ken" :> <<332382, 1316126>>)
    @@ ("Miyazaki-ken" :> <<319077, 1314202>>)
    @@ ("Kagoshima-ken" :> <<315602, 1305581>>)
    @@ ("Okinawa-ken" :> <<262124, 1276792>>)

required_fields ==
    << "name", "birth_year", "birth_month", "birth_day", "birth_hour", "birth_minute",
       "birth_prefecture" >>

IntV(n) == [t |-> "int", v |-> n]

\* int(x): the number, or ValueError / TypeError
py_int(x) ==
    IF x.t \in {"int", "str"} THEN [ok |-> TRUE, v |-> x.v]
    ELSE [ok |-> FALSE, v |-> 0]

\* datetime's _is_leap
is_leap(year) == year % 4 = 0 /\ (year % 100 # 0 \/ year % 400 = 0)

\* datetime's _days_in_month
days_in_month(year, month) ==
    IF month = 2 THEN (IF is_leap(year) THEN 29 ELSE 28)
    ELSE IF month \in {4, 6, 9, 11} THEN 30 ELSE 31

\* faulty variant: the day is checked against 31 only, whatever the month
datetime_new_any_month(year, month, day, hour, minute) ==
    IF /\ 1 <= year /\ year <= 9999
       /\ 1 <= month /\ month <= 12
       /\ 1 <= day /\ day <= 31
       /\ 0 <= hour /\ hour <= 23
       /\ 0 <= minute /\ minute <= 59
    THEN [ok |-> TRUE, year |-> year, month |-> month, day |-> day,
          hour |-> hour, minute |-> minute]
    ELSE [ok |-> FALSE, year |-> 0, month |-> 0, day |-> 0, hour |-> 0, minute |-> 0]

\* datetime(year, month, day, hour, minute) on integers: the value, or ValueError
datetime_new(year, month, day, hour, minute) ==
    IF /\ 1 <= year /\ year <= 9999
       /\ 1 <= month /\ month <= 12
       /\ 1 <= day /\ day <= days_in_month(year, month)
       /\ 0 <= hour /\ hour <= 23
       /\ 0 <= minute /\ minute <= 59
    THEN [ok |-> TRUE, year |-> year, month |-> month, day |-> day,
          hour |-> hour, minute |-> minute]
    ELSE [ok |-> FALSE, year |-> 0, month |-> 0, day |-> 0, hour |-> 0, minute |-> 0]

\* the day before a date
previous_day(dt) ==
    IF dt.day > 1 THEN [dt EXCEPT !.day = @ - 1]
    ELSE IF dt.month > 1
    THEN [dt EXCEPT !.month = @ - 1, !.day = days_in_month(dt.year, dt.month - 1)]
    ELSE [dt EXCEPT !.year = @ - 1, !.month = 12, !.day = 31]

\* faulty variant: the hour wraps around midnight but the date is kept
minus_hours_same_day(dt, hours) ==
    IF dt.hour >= hours THEN [dt EXCEPT !.hour = @ - hours]
    ELSE [dt EXCEPT !.hour = dt.hour + 24 - hours]

\* dt - timedelta(hours=hours), 0 <= hours <= 24: the value, or OverflowError
\* (ok = FALSE) when it falls before year 1
minus_hours(dt, hours) ==
    LET r == IF dt.hour >= hours THEN [dt EXCEPT !.hour = @ - hours]
             ELSE [previous_day(dt) EXCEPT !.hour = dt.hour + 24 - hours]
    IN  IF r.year >= 1 THEN r ELSE [r EXCEPT !.ok = FALSE]

\* the arguments of swe.julday(year, month, day, hour + minute / 60.0), the
\* hour in minutes; the Julian Day is a function of them
julday(utc) ==
    [ year |-> utc.year, month |-> utc.month, day |-> utc.day,
      hour |-> 60 * utc.hour + utc.minute ]

\* what swe.calc_ut does for a body under the provider's outcome eph
calc_ut(eph, body) ==
    IF body \in eph.failing THEN [ok |-> FALSE, longitude |-> 0]
    ELSE [ok |-> TRUE, longitude |-> eph.sky[body]]

\* faulty variant: a body whose computation failed is skipped
RECURSIVE resolve_positions_skipping(_, _, _, _)
resolve_positions_skipping(i, planets, log, eph) ==
    IF i > Len(planet_ids) THEN [planets |-> planets, failed |-> NoName, calls |-> log]
    ELSE LET planet_name == planet_ids[i]
             c == calc_ut(eph, planet_name)
             position == calculate_planet_position(c)
             log2 == Append(log, [fn |-> "calc_ut", body |-> planet_name, ok |-> c.ok])
         IN  IF position # None
             THEN resolve_positions_skipping(i + 1, planets @@ (planet_name :> position),
                                             log2, eph)
             ELSE resolve_positions_skipping(i + 1, planets, log2, eph)

\* faulty variant: a body whose computation failed is queried once more
RECURSIVE resolve_positions_retrying(_, _, _, _)
resolve_positions_retrying(i, planets, log, eph) ==
    IF i > Len(planet_ids) THEN [planets |-> planets, failed |-> NoName, calls |-> log]
    ELSE LET planet_name == planet_ids[i]
             c == calc_ut(eph, planet_name)
             position == calculate_planet_position(c)
             log2 == Append(log, [fn |-> "calc_ut", body |-> planet_name, ok |-> c.ok])
         IN  IF position # None
             THEN resolve_positions_retrying(i + 1, planets @@ (planet_name :> position),
                                             log2, eph)
             ELSE [planets |-> planets, failed |-> planet_name,
                   calls |-> Append(log2, [fn |-> "calc_ut", body |-> planet_name,
                                           ok |-> c.ok])]

\* the loop over planet_ids.items(), from its i-th body on: the planets
\* gathered, the body whose position was None (or NoName), and the calls made
RECURSIVE resolve_positions(_, _, _, _)
resolve_positions(i, planets, log, eph) ==
    IF i > Len(planet_ids) THEN [planets |-> planets, failed |-> NoName, calls |-> log]
    ELSE LET planet_name == planet_ids[i]
             c == calc_ut(eph, planet_name)
             position == calculate_planet_position(c)
             log2 == Append(log, [fn |-> "calc_ut", body |-> planet_name, ok |-> c.ok])
         IN  IF position # None
             THEN resolve_positions(i + 1, planets @@ (planet_name :> position), log2, eph)
             ELSE [planets |-> planets, failed |-> planet_name, calls |-> log2]

\* the calls made before the loop: swe.julday, then init_swisseph
calls_before_loop(julian_day) ==
    << [fn |-> "julday", body |-> "", ok |-> TRUE, args |-> julian_day],
       [fn |-> "init_swisseph", body |-> "", ok |-> TRUE] >>

\* the first required field the request body lacks, or NoName
first_missing_field(data) ==
    IF \E i \in 1..Len(required_fields) : required_fields[i] \notin DOMAIN data
    THEN LET i == CHOOSE i \in 1..Len(required_fields) :
                    /\ required_fields[i] \notin DOMAIN data
                    /\ \A j \in 1..(i - 1) : required_fields[j] \in DOMAIN data
         IN  required_fields[i]
    ELSE NoName

\* a handler's outcome: its response and the external calls it made
Outcome(r, log) == [response |-> r, calls |-> log]

\* faulty variant: the offset to UTC is the mean-time offset of the region's
\* meridian (15 degrees an hour) instead of 9 hours
calculate_planets_local_mean_time(data, eph) ==
    IF first_missing_field(data) # NoName
    THEN Outcome(ErrorResponse(400, "missing_field", first_missing_field(data)), << >>)
    ELSE
    LET year == py_int(data.birth_year)
        month == py_int(data.birth_month)
        day == py_int(data.birth_day)
        hour == py_int(data.birth_hour)
        minute == py_int(data.birth_minute)
        prefecture == data.birth_prefecture
    IN
    IF ~(year.ok /\ month.ok /\ day.ok /\ hour.ok /\ minute.ok)
    THEN Outcome(ErrorResponse(400, "bad_format", ""), << >>)
    ELSE IF ~(1900 <= year.v /\ year.v <= 2100)
    THEN Outcome(ErrorResponse(400, "out_of_range", "year"), << >>)
    ELSE IF ~(1 <= month.v /\ month.v <= 12)
    THEN Outcome(ErrorResponse(400, "out_of_range", "month"), << >>)
    ELSE IF ~(1 <= day.v /\ day.v <= 31)
    THEN Outcome(ErrorResponse(400, "out_of_range", "day"), << >>)
    ELSE IF ~(0 <= hour.v /\ hour.v <= 23)
    THEN Outcome(ErrorResponse(400, "out_of_range", "hour"), << >>)
    ELSE IF ~(0 <= minute.v /\ minute.v <= 59)
    THEN Outcome(ErrorResponse(400, "out_of_range", "minute"), << >>)
    ELSE IF prefecture \notin DOMAIN PREFECTURE_COORDINATES
    THEN Outcome(ErrorResponse(400, "invalid_prefecture", ""), << >>)
    ELSE
    LET birth_datetime_jst == datetime_new(year.v, month.v, day.v, hour.v, minute.v)
    IN
    IF ~birth_datetime_jst.ok
    THEN Outcome(ErrorResponse(400, "invalid_date", "ValueError"), << >>)
    ELSE
    LET birth_datetime_utc ==
            minus_hours(birth_datetime_jst,
                        PREFECTURE_COORDINATES[prefecture][2] \div (15 * 10000))
        julian_day == julday(birth_datetime_utc)
        r == resolve_positions(1, EmptyDict, calls_before_loop(julian_day), eph)
    IN
    IF r.failed # NoName
    THEN Outcome(ErrorResponse(500, "calc_failed", r.failed), r.calls)
    ELSE Outcome([ status |-> 200,
                   success |-> TRUE,
                   planets |-> r.planets,
                   birth_info |-> [ name |-> data.name,
                                    birth_datetime_jst |-> birth_datetime_jst,
                                    birth_prefecture |-> prefecture ] ],
                 r.calls)

\* the handler of /api/calculate-planets on the request body data, under the
\* provider's outcome eph
calculate_planets(data, eph) ==
    IF first_missing_field(data) # NoName
    THEN Outcome(ErrorResponse(400, "missing_field", first_missing_field(data)), << >>)
    ELSE
    LET year == py_int(data.birth_year)
        month == py_int(data.birth_month)
        day == py_int(data.birth_day)
        hour == py_int(data.birth_hour)
        minute == py_int(data.birth_minute)
        prefecture == data.birth_prefecture
    IN
    IF ~(year.ok /\ month.ok /\ day.ok /\ hour.ok /\ minute.ok)
    THEN Outcome(ErrorResponse(400, "bad_format", ""), << >>)
    ELSE IF ~(1900 <= year.v /\ year.v <= 2100)
    THEN Outcome(ErrorResponse(400, "out_of_range", "year"), << >>)
    ELSE IF ~(1 <= month.v /\ month.v <= 12)
    THEN Outcome(ErrorResponse(400, "out_of_range", "month"), << >>)
    ELSE IF ~(1 <= day.v /\ day.v <= 31)
    THEN Outcome(ErrorResponse(400, "out_of_range", "day"), << >>)
    ELSE IF ~(0 <= hour.v /\ hour.v <= 23)
    THEN Outcome(ErrorResponse(400, "out_of_range", "hour"), << >>)
    ELSE IF ~(0 <= minute.v /\ minute.v <= 59)
    THEN Outcome(ErrorResponse(400, "out_of_range", "minute"), << >>)
    ELSE IF prefecture \notin DOMAIN PREFECTURE_COORDINATES
    THEN Outcome(ErrorResponse(400, "invalid_prefecture", ""), << >>)
    ELSE
    LET birth_datetime_jst == datetime_new(year.v, month.v, day.v, hour.v, minute.v)
    IN
    IF ~birth_datetime_jst.ok
    THEN Outcome(ErrorResponse(400, "invalid_date", "ValueError"), << >>)
    ELSE
    LET birth_datetime_utc == minus_hours(birth_datetime_jst, 9)
        julian_day == julday(birth_datetime_utc)
        r == resolve_positions(1, EmptyDict, calls_before_loop(julian_day), eph)
    IN
    IF r.failed # NoName
    THEN Outcome(ErrorResponse(500, "calc_failed", r.failed), r.calls)
    ELSE Outcome([ status |-> 200,
                   success |-> TRUE,
                   planets |-> r.planets,
                   birth_info |-> [ name |-> data.name,
                                    birth_datetime_jst |-> birth_datetime_jst,
                                    birth_prefecture |-> prefecture ] ],
                 r.calls)

\* a dict {'success': False, 'error': ...} returned by calculate_planets_internal
InternalError(error, arg) == [ success |-> FALSE, error |-> error, arg |-> arg ]

\* calculate_planets_internal(data) under the provider's outcome eph; the
\* except clause turns any exception into an error dict
calculate_planets_internal(data, eph) ==
    IF first_missing_field(data) # NoName
    THEN Outcome(InternalError("missing_field", first_missing_field(data)), << >>)
    ELSE IF data.birth_prefecture \notin DOMAIN PREFECTURE_COORDINATES
    THEN Outcome(InternalError("invalid_prefecture", ""), << >>)
    ELSE IF \E f \in {"birth_year", "birth_month", "birth_day", "birth_hour",
                      "birth_minute"} : data[f].t # "int"
    THEN Outcome(InternalError("exception", "TypeError"), << >>)
    ELSE
    LET birth_datetime_jst ==
            datetime_new(data.birth_year.v, data.birth_month.v, data.birth_day.v,
                         data.birth_hour.v, data.birth_minute.v)
    IN
    IF ~birth_datetime_jst.ok
    THEN Outcome(InternalError("exception", "ValueError"), << >>)
    ELSE
    LET birth_datetime_utc == minus_hours(birth_datetime_jst, 9)
    IN
    IF ~birth_datetime_utc.ok
    THEN Outcome(InternalError("exception", "OverflowError"), << >>)
    ELSE
    LET julian_day == julday(birth_datetime_utc)
        r == resolve_positions(1, EmptyDict, calls_before_loop(julian_day), eph)
    IN
    IF r.failed # NoName
    THEN Outcome(InternalError("calc_failed", r.failed), r.calls)
    ELSE Outcome([ success |-> TRUE,
                   planets |-> r.planets,
                   birth_info |-> [ name |-> data.name,
                                    birth_datetime_jst |-> birth_datetime_jst,
                                    birth_prefecture |-> data.birth_prefecture ] ],
                 r.calls)

(***************************************************************************)
(* Spec: requests to the position pipeline                                 *)
(***************************************************************************)
YearSamples == {1899, 1900, 2023, 2024, 2100, 2101}
MonthSamples == {0, 1, 2, 3, 4, 12, 13}
DaySamples == {0, 1, 28, 29, 30, 31, 32}
HourSamples == {-1, 0, 8, 9, 23, 24}
MinuteSamples == {-1, 0, 59, 60}
PrefectureSamples == {"Tokyo-to", "Okinawa-ken", "Atlantis"}

BirthData(year, month, day, hour, minute, prefecture) ==
    [ name |-> "name", birth_year |-> year, birth_month |-> month, birth_day |-> day,
      birth_hour |-> hour, birth_minute |-> minute, birth_prefecture |-> prefecture ]

\* a well-formed request body
BaseData == BirthData(IntV(2024), IntV(3), IntV(1), IntV(8), IntV(59), "Tokyo-to")

\* the values of a date/time field that are not JSON integers
OddValues == { [t |-> "str", v |-> 12], [t |-> "text", v |-> 0], [t |-> "null", v |-> 0] }

\* a function without one of its keys
Without(d, key) == [ k \in DOMAIN d \ {key} |-> d[k] ]

\* three skies: the longitude the provider gives for each body
Skies ==
    { ("sun" :> 15 * Unit) @@ ("moon" :> 105 * Unit + 500) @@ ("mercury" :> 125 * Unit + 250)
        @@ ("venus" :> 45 * Unit) @@ ("mars" :> 250 * Unit) @@ ("jupiter" :> 70 * Unit + 4)
        @@ ("saturn" :> 345 * Unit + (Unit - 4)),
      ("sun" :> 0) @@ ("moon" :> 359 * Unit + (Unit - 4)) @@ ("mercury" :> 29 * Unit + (Unit - 4))
        @@ ("venus" :> 30 * Unit) @@ ("mars" :> 180 * Unit) @@ ("jupiter" :> 269 * Unit + 990)
        @@ ("saturn" :> 300 * Unit + 10),
      [ b \in Bodies |-> 200 * Unit + 123 ] }

\* the requests: an operation and its request body
IsPipelineRequest(req) ==
    \E op \in {"calculate_planets", "calculate_planets_internal"} :
        \/ \E year \in YearSamples, month \in MonthSamples, day \in DaySamples,
              hour \in HourSamples, minute \in MinuteSamples,
              prefecture \in PrefectureSamples :
             req = [op |-> op,
                    data |-> BirthData(IntV(year), IntV(month), IntV(day), IntV(hour),
                                       IntV(minute), prefecture)]
        \/ \E f \in {"birth_year", "birth_month", "birth_day", "birth_hour",
                      "birth_minute"}, x \in OddValues :
             req = [op |-> op, data |-> [BaseData EXCEPT ![f] = x]]
        \/ \E i \in 1..Len(required_fields) :
             req = [op |-> op, data |-> Without(BaseData, required_fields[i])]

\* the provider's outcomes: a sky, and the bodies whose computation raises
Ephemerides ==
    { [sky |-> sky, failing |-> failing] :
        sky \in Skies, failing \in { F \in SUBSET Bodies : Cardinality(F) <= MaxFailing } }

\* the outcome of a provider that is never consulted
NoEphemeris == [sky |-> [b \in Bodies |-> 0], failing |-> {}]

\* the outcomes of the provider that a request can meet: all of them when the
\* operation consults the provider, and none to choose otherwise
EphemeridesFor(made_calls) == IF made_calls = << >> THEN {NoEphemeris} ELSE Ephemerides

Init ==
    /\ pc = "start"
    /\ IsPipelineRequest(request)
    /\ response = None
    /\ calls = << >>

CalculatePlanets ==
    /\ pc = "start"
    /\ request.op = "calculate_planets"
    /\ \E eph \in EphemeridesFor(calculate_planets(request.data, NoEphemeris).calls) :
         LET out == calculate_planets(request.data, eph)
         IN  /\ response' = out.response
             /\ calls' = out.calls
    /\ pc' = "done"
    /\ UNCHANGED request

CalculatePlanetsInternal ==
    /\ pc = "start"
    /\ request.op = "calculate_planets_internal"
    /\ \E eph \in EphemeridesFor(calculate_planets_internal(request.data, NoEphemeris).calls) :
         LET out == calculate_planets_internal(request.data, eph)
         IN  /\ response' = out.response
             /\ calls' = out.calls
    /\ pc' = "done"
    /\ UNCHANGED request

Next ==
    \/ CalculatePlanets
    \/ CalculatePlanetsInternal

Spec == Init /\ [][Next]_vars

(***************************************************************************)
(* Properties of the classifiers (checked under SpecClassify)              *)
(***************************************************************************)
Range(f) == { f[x] : x \in DOMAIN f }

\* the index (0 = Aries) of a sign name in a list of signs, -1 when absent
IndexOf(list, name) ==
    IF \E i \in 1..Len(list) : list[i] = name
    THEN (CHOOSE i \in 1..Len(list) : list[i] = name) - 1
    ELSE -1

ElementCycle == << "Fire", "Earth", "Air", "Water" >>

ClassifiedByApi == pc = "done" /\ response.op = "calculate_planet_position" /\ request.ok

ClassifiedByApp == pc = "done" /\ response.op = "get_sixteen_archetype" /\ request.ok

\* the request with the sun's longitude moved by k full turns
Turned(k) == [request EXCEPT !.sun_longitude = @ + k * 360 * Unit]

\* C1 (as claimed): classifying L and L + 360*k gives the same sign, the same
\* degree in the sign and the same element, in calculate_planet_position and in
\* get_zodiac_sign / get_element; 375.0 classifies like 15.0 (sign index 0,
\* degree 15.0).
C1_Periodic ==
    /\ ClassifiedByApi /\ response.body = "sun" =>
         /\ \A k \in (-MaxTurns) .. MaxTurns :
              LET p == response.position
                  q == calculate_planet_position(
                           [ok |-> TRUE, longitude |-> Turned(k).sun_longitude])
              IN  p.sign = q.sign /\ p.degree = q.degree /\ p.element = q.element
         /\ request.sun_longitude = 375 * Unit =>
              /\ response.position.sign = signs[1]
              /\ response.position.degree = 1500
    /\ ClassifiedByApp =>
         /\ \A k \in (-MaxTurns) .. MaxTurns :
              LET p == response.astro_data
                  q == calculate_planetary_positions(Turned(k))
              IN  /\ p.sun_sign = q.sun_sign
                  /\ p.sun_degree = q.sun_degree
                  /\ p.sun_element = q.sun_element
         /\ request.sun_longitude = 375 * Unit =>
              /\ response.astro_data.sun_sign = signs_en[1]
              /\ response.astro_data.sun_degree = 15 * Unit

\* the longitudes an ephemeris provider returns: 0 <= L < 360
InProviderRange(longitude) == 0 <= longitude /\ longitude < 360 * Unit

\* C2: for every longitude the provider returns, the sign is
\* signs[floor(longitude / 30) mod 12] and the degree in the sign is
\* longitude mod 30, with 0 <= degree < 30; the sign is one of the 12 signs.
\* (Stated as the decomposition longitude = 30 * q + d; the degree is the
\* classifier's degree_in_sign, before the response rounds it.)
C2_SignAndDegree ==
    /\ ClassifiedByApi /\ InProviderRange(response.calc_ut.longitude) =>
         /\ response.position.sign \in Range(signs)
         /\ \E q \in 0 .. 11 :
              /\ response.calc_ut.longitude = 30 * Unit * q + response.degree_in_sign
              /\ 0 <= response.degree_in_sign
              /\ response.degree_in_sign < 30 * Unit
              /\ response.sign_num = q
              /\ response.position.sign = signs[(q % 12) + 1]
    /\ ClassifiedByApp =>
         /\ response.astro_data.sun_sign \in Range(signs_en)
         /\ response.astro_data.moon_sign \in Range(signs_en)
         /\ \E q \in (-12 * (MaxTurns + 1)) .. (12 * (MaxTurns + 2)) :
              /\ request.sun_longitude = 30 * Unit * q + response.astro_data.sun_degree
              /\ 0 <= response.astro_data.sun_degree
              /\ response.astro_data.sun_degree < 30 * Unit
              /\ response.astro_data.sun_sign = signs_en[(q % 12) + 1]

C2_Witness ==
    /\ ClassifiedByApi
    /\ response.calc_ut.longitude = 345 * Unit + (Unit - 4)
    /\ response.position.sign = "ja.Pisces"
    /\ response.degree_in_sign = 15 * Unit + (Unit - 4)

\* C3: the sign-to-element table is total over the 12 signs and cyclic: sign i
\* (0 = Aries) has element [Fire, Earth, Air, Water][i mod 4], so each element
\* has exactly 3 signs; so for SIGN_ELEMENTS under the Japanese and under the
\* English name, and for get_element of app.py; a classified longitude carries
\* the element of its sign.
C3_ElementCycle ==
    /\ DOMAIN SIGN_ELEMENTS = Range(signs) \cup Range(signs_en)
    /\ DOMAIN elements = Range(signs_en)
    /\ \A i \in 0 .. 11 :
         /\ DictGet(SIGN_ELEMENTS, signs[i + 1], NoName) = ElementCycle[(i % 4) + 1]
         /\ DictGet(SIGN_ELEMENTS, signs_en[i + 1], NoName) = ElementCycle[(i % 4) + 1]
         /\ get_element(signs_en[i + 1]) = ElementCycle[(i % 4) + 1]
    /\ \A e \in Elements :
         /\ Cardinality({ i \in 0 .. 11 : DictGet(SIGN_ELEMENTS, signs[i + 1], NoName) = e }) = 3
         /\ Cardinality({ i \in 0 .. 11 : get_element(signs_en[i + 1]) = e }) = 3
    /\ ClassifiedByApi /\ response.position.sign \in Range(signs) =>
         response.position.element =
             ElementCycle[(IndexOf(signs, response.position.sign) % 4) + 1]
    /\ ClassifiedByApp =>
         response.astro_data.sun_element =
             ElementCycle[(IndexOf(signs_en, response.astro_data.sun_sign) % 4) + 1]

C3_Witness ==
    /\ ClassifiedByApi
    /\ response.position.sign = "ja.Scorpio"
    /\ response.position.element = "Water"

(***************************************************************************)
(* Properties of the archetype and the balance (checked under SpecProfile) *)
(***************************************************************************)
Diagnosed == pc = "done" /\ response.op = "simple_diagnosis" /\ response.success

Balanced == pc = "done" /\ response.op = "calculate_element_balance"

\* a response that carries an element balance
HasBalance == Diagnosed \/ Balanced

\* the request's bodies are BodyPositions: each carries one of the 4 elements
AllBodiesValid ==
    /\ "planets" \in DOMAIN request
    /\ \A b \in DOMAIN request.planets : request.planets[b] \in ValidBodyDicts

\* C4: the archetype lookup is total over the 4 x 4 element pairs: the table
\* (ARCHETYPE_DATABASE, and the one of get_sixteen_archetype) holds an entry for
\* each of the 16 pairs, and a lookup of a pair of the closed set returns that
\* entry, never the default label.
C4_ArchetypeTotal ==
    /\ DOMAIN ARCHETYPE_DATABASE = Elements \X Elements
    /\ DOMAIN combinations = Elements \X Elements
    /\ \A s \in Elements, m \in Elements :
         /\ archetype_lookup(s, m) # "Unknown_archetype"
         /\ get_sixteen_archetype(s, m) # "Unknown"
    /\ (Diagnosed /\ response.sun_element \in Elements
                  /\ response.moon_element \in Elements) =>
         /\ response.archetype # "Unknown_archetype"
         /\ response.archetype \in Range(ARCHETYPE_DATABASE)

C4_Witness ==
    /\ Diagnosed
    /\ request.planets["sun"] = [element |-> "Water"]
    /\ request.planets["moon"] = [element |-> "Water"]
    /\ response.archetype = "The Ocean"

\* C5: the lookup is order-sensitive, the Sun's element first and the Moon's
\* second: archetype(a, b) differs from archetype(b, a) for a # b, the 16 labels
\* are pairwise distinct, (Sun Fire, Moon Water) gives The Geyser and (Sun Water,
\* Moon Fire) gives The Steam.
C5_ArchetypeOrdered ==
    /\ \A a \in Elements, b \in Elements :
         a # b => archetype_lookup(a, b) # archetype_lookup(b, a)
    /\ Cardinality({ archetype_lookup(k[1], k[2]) : k \in Elements \X Elements }) = 16
    /\ Diagnosed =>
         /\ (request.planets["sun"].element = "Fire"
               /\ request.planets["moon"].element = "Water") =>
              response.archetype = "The Geyser"
         /\ (request.planets["sun"].element = "Water"
               /\ request.planets["moon"].element = "Fire") =>
              response.archetype = "The Steam"
         /\ (response.sun_element \in Elements /\ response.moon_element \in Elements) =>
              response.archetype =
                  ARCHETYPE_DATABASE[<<request.planets["sun"].element,
                                       request.planets["moon"].element>>]

C5_Witness ==
    /\ Diagnosed
    /\ request.planets["sun"].element = "Water"
    /\ request.planets["moon"].element = "Fire"
    /\ response.archetype = "The Steam"

\* the sum of the four shares, in tenths of a percent
BalanceSum(balance) ==
    balance["Fire"] + balance["Earth"] + balance["Air"] + balance["Water"]

\* C6: for a non-empty body set, each of the four percentages lies in [0, 100]
\* and the four sum to 100 within 0.4 (calculate_element_balance and the
\* computation of simple_diagnosis).
C6_BalanceRange ==
    (HasBalance /\ AllBodiesValid /\ DOMAIN request.planets # {}) =>
        /\ \A e \in Elements :
             0 <= response.element_balance[e] /\ response.element_balance[e] <= 1000
        /\ BalanceSum(response.element_balance) >= 1000 - 4
        /\ BalanceSum(response.element_balance) <= 1000 + 4

C6_Witness ==
    /\ Balanced
    /\ AllBodiesValid
    /\ Cardinality(DOMAIN request.planets) = 6
    /\ BalanceSum(response.element_balance) = 1001

\* the bodies of the request that carry element e
BodiesWith(e) ==
    { b \in DOMAIN request.planets : request.planets[b] = [element |-> e] }

\* the 7-body set of the scenario
ScenarioPlanets ==
    ("sun" :> [element |-> "Fire"]) @@ ("moon" :> [element |-> "Water"])
    @@ ("mercury" :> [element |-> "Fire"]) @@ ("venus" :> [element |-> "Earth"])
    @@ ("mars" :> [element |-> "Fire"]) @@ ("jupiter" :> [element |-> "Air"])
    @@ ("saturn" :> [element |-> "Water"])

\* C7: each share is (bodies with the element / bodies of the set) * 100
\* rounded to one decimal, element by element and without renormalisation: it
\* is the tenth nearest to the exact quotient; the scenario set gives Fire 42.9,
\* Earth 14.3, Air 14.3, Water 28.6.
C7_BalanceShares ==
    (HasBalance /\ AllBodiesValid /\ DOMAIN request.planets # {}) =>
        /\ \A e \in Elements :
             LET n == Cardinality(DOMAIN request.planets)
                 exact == 1000 * Cardinality(BodiesWith(e))
                 got == response.element_balance[e] * n
             IN  2 * (got - exact) <= n /\ 2 * (exact - got) <= n
        /\ request.planets = ScenarioPlanets =>
             response.element_balance =
                 ("Fire" :> 429) @@ ("Earth" :> 143) @@ ("Air" :> 143) @@ ("Water" :> 286)

C7_Witness ==
    /\ Diagnosed
    /\ request.planets = ScenarioPlanets
    /\ response.element_balance["Fire"] = 429
    /\ BalanceSum(response.element_balance) = 1001

\* C8 (as claimed): every balance computation gives Fire 25.0, Earth 25.0,
\* Air 25.0, Water 25.0 for an empty body set.
C8_EmptyBalance ==
    (pc = "done" /\ "planets" \in DOMAIN request /\ DOMAIN request.planets = {}) =>
        /\ "element_balance" \in DOMAIN response
        /\ response.element_balance = [ e \in Elements |-> 250 ]

(***************************************************************************)
(* Properties of the position pipeline (checked under Spec)                *)
(***************************************************************************)
PipelineDone ==
    pc = "done" /\ request.op \in {"calculate_planets", "calculate_planets_internal"}

\* the Gregorian calendar, stated on its own: 30 days hath September ...
CalendarValid(year, month, day) ==
    /\ month \in 1 .. 12
    /\ day >= 1
    /\ \/ month \in {1, 3, 5, 7, 8, 10, 12} /\ day <= 31
       \/ month \in {4, 6, 9, 11} /\ day <= 30
       \/ month = 2 /\ day <= 28
       \/ /\ month = 2 /\ day = 29
          /\ \/ year % 400 = 0
             \/ year % 4 = 0 /\ year % 100 # 0

\* a request body that is a BirthInput but for its calendar date: every field
\* present, the date/time fields integers, year, hour and minute in range, and
\* the region one of the table
ValidButForDate(data) ==
    /\ \A i \in 1..Len(required_fields) : required_fields[i] \in DOMAIN data
    /\ \A f \in {"birth_year", "birth_month", "birth_day", "birth_hour", "birth_minute"} :
         data[f].t = "int"
    /\ data.birth_year.v \in 1900 .. 2100
    /\ data.birth_hour.v \in 0 .. 23
    /\ data.birth_minute.v \in 0 .. 59
    /\ data.birth_prefecture \in DOMAIN PREFECTURE_COORDINATES

\* the time normalisation of the request succeeded: swe.julday was called
Normalised == Len(calls) >= 1 /\ calls[1].fn = "julday"

\* C9: time normalisation rejects every calendar-invalid date (such as
\* 2024-02-30) with an invalid-input error and no profile, and accepts every
\* calendar-valid one (such as 2024-02-29), in calculate_planets and in
\* calculate_planets_internal.
C9_DateValidity ==
    (PipelineDone /\ ValidButForDate(request.data)) =>
        LET data == request.data
            valid == CalendarValid(data.birth_year.v, data.birth_month.v, data.birth_day.v)
        IN  /\ ~valid =>
                 /\ ~response.success
                 /\ "planets" \notin DOMAIN response
                 /\ ~Normalised
                 /\ calls = << >>
                 /\ request.op = "calculate_planets" =>
                      /\ response.status = 400
                      /\ response.error \in {"out_of_range", "invalid_date"}
                 /\ request.op = "calculate_planets_internal" =>
                      response.error = "exception" /\ response.arg = "ValueError"
            /\ valid =>
                 /\ Normalised
                 /\ ~response.success =>
                      response.error \notin {"invalid_date", "out_of_range", "exception"}

C9_Witness ==
    /\ PipelineDone
    /\ request.op = "calculate_planets"
    /\ request.data.birth_year = IntV(2024)
    /\ request.data.birth_month = IntV(2)
    /\ request.data.birth_day = IntV(30)
    /\ response.status = 400
    /\ response.error = "invalid_date"

\* the provider failed for a body of the request
ProviderFailed == \E i \in 1..Len(calls) : calls[i].fn = "calc_ut" /\ ~calls[i].ok

\* C10: the profile is all or nothing: if the provider fails for a body, the
\* request fails with an error that names the failing body and the response
\* holds no body position; a successful response holds exactly the 7 bodies
\* sun, moon, mercury, venus, mars, jupiter, saturn.
C10_AllOrNothing ==
    PipelineDone =>
        /\ ProviderFailed =>
             /\ ~response.success
             /\ "planets" \notin DOMAIN response
             /\ response.error = "calc_failed"
             /\ \E i \in 1..Len(calls) :
                  calls[i].fn = "calc_ut" /\ ~calls[i].ok /\ response.arg = calls[i].body
             /\ request.op = "calculate_planets" => response.status = 500
        /\ response.success =>
             /\ ~ProviderFailed
             /\ DOMAIN response.planets =
                    {"sun", "moon", "mercury", "venus", "mars", "jupiter", "saturn"}
             /\ \A b \in DOMAIN response.planets :
                  DOMAIN response.planets[b] = {"sign", "degree", "longitude", "element"}

C10_Witness ==
    /\ PipelineDone
    /\ request.op = "calculate_planets_internal"
    /\ ProviderFailed
    /\ ~response.success
    /\ response.error = "calc_failed"
    /\ response.arg = "mars"

(***************************************************************************)
(* The form handlers of app.py                                             *)
(***************************************************************************)
\* PREFECTURES of app.py: latitude and longitude in 1/10000 degree
PREFECTURES ==
    [ k \in {} |-> << >> ]
    @@ ("Hokkaido" :> <<430642, 1413469>>)
    @@ ("Aomori-ken" :> <<408244, 1407400>>)
    @@ ("Iwate-ken" :> <<397036, 1411527>>)
    @@ ("Miyagi-ken" :> <<382682, 1408721>>)
    @@ ("Akita-ken" :> <<397186, 1401022>>)
    @@ ("Yamagata-ken" :> <<382404, 1403633>>)
    @@ ("Fukushima-ken" :> <<377503, 1404677>>)
    @@ ("Ibaraki-ken" :> <<363418, 1404468>>)
    @@ ("Tochigi-ken" :> <<365658, 1398836>>)
    @@ ("Gunma-ken" :> <<363906, 1390608>>)
    @@ ("Saitama-ken" :> <<358617, 1396455>>)
    @@ ("Chiba-ken" :> <<356074, 1401065>>)
    @@ ("Tokyo-to" :> <<356762, 1396503>>)
    @@ ("Kanagawa-ken" :> <<354478, 1396425>>)
    @@ ("Niigata-ken" :> <<379026, 1390232>>)
    @@ ("Toyama-ken" :> <<366959, 1372137>>)
    @@ ("Ishikawa-ken" :> <<365946, 1366256>>)
    @@ ("Fukui-ken" :> <<360652, 1362216>>)
    @@ ("Yamanashi-ken" :> <<356642, 1385681>>)
    @@ ("Nagano-ken" :> <<366513, 1381809>>)
    @@ ("Gifu-ken" :> <<353912, 1367223>>)
    @@ ("Shizuoka-ken" :> <<349756, 1383827>>)
    @@ ("Aichi-ken" :> <<351802, 1369066>>)
    @@ ("Mie-ken" :> <<347302, 1365086>>)
    @@ ("Shiga-ken" :> <<350045, 1358686>>)
    @@ ("Kyoto-fu" :> <<350211, 1357556>>)
    @@ ("Osaka-fu" :> <<346937, 1355023>>)
    @@ ("Hyogo-ken" :> <<346913, 1351830>>)
    @@ ("Nara-ken" :> <<346851, 1358048>>)
    @@ ("Wakayama-ken" :> <<342261, 1351675>>)
    @@ ("Tottori-ken" :> <<355038, 1342378>>)
    @@ ("Shimane-ken" :> <<354723, 1330505>>)
    @@ ("Okayama-ken" :> <<346618, 1339346>>)
    @@ ("Hiroshima-ken" :> <<343963, 1324596>>)
    @@ ("Yamaguchi-ken" :> <<341861, 1314707>>)
    @@ ("Tokushima-ken" :> <<340658, 1345593>>)
    @@ ("Kagawa-ken" :> <<343401, 1340430>>)
    @@ ("Ehime-ken" :> <<338416, 1327658>>)
    @@ ("Kochi-ken" :> <<335597, 1335311>>)
    @@ ("Fukuoka-ken" :> <<336064, 1304181>>)
    @@ ("Saga-ken" :> <<332494, 1302989>>)
    @@ ("Nagasaki-ken" :> <<327503, 1298779>>)
    @@ ("Kumamoto-ken" :> <<327898, 1307417>>)
    @@ ("Oita-ken" :> <<332382, 1316126>>)
    @@ ("Miyazaki-ken" :> <<319077, 1314202>>)
    @@ ("Kagoshima-ken" :> <<315602, 1305581>>)
    @@ ("Okinawa-ken" :> <<262124, 1276792>>)

\* the coordinates PREFECTURES.get falls back to: (35.6762, 139.6503)
default_coordinates == <<356762, 1396503>>

\* a form field that is absent or empty: request.form.get gives None or '',
\* and all([...]) takes either for false
NoField == [t |-> "missing"]

\* datetime.strptime(birth_date + ' ' + birth_time, '%Y-%m-%d %H:%M'): the
\* datetime, or ValueError (ok = FALSE) when a part is not of the format or
\* is not a date or a time
strptime(birth_date_str, birth_time_str) ==
    IF birth_date_str.t = "date" /\ birth_time_str.t = "time"
    THEN datetime_new(birth_date_str.year, birth_date_str.month, birth_date_str.day,
                      birth_time_str.hour, birth_time_str.minute)
    ELSE datetime_new(0, 0, 0, 0, 0)

\* generate_comprehensive_health_data: the fields of the page that are built
\* from the positions and the archetype
generate_comprehensive_health_data(astro_data, archetype) ==
    [ primary_archetype |-> archetype,
      circulation_type |-> <<astro_data.sun_element, astro_data.moon_element>>,
      lunar_influence |-> astro_data.moon_sign,
      sun_position |-> <<astro_data.sun_sign, astro_data.sun_degree>>,
      moon_position |-> <<astro_data.moon_sign, astro_data.moon_degree>> ]

\* the body of basic_diagnosis and of detailed_diagnosis, which differ in the
\* template only; ephem is what the PyEphem computation does when consulted
form_diagnosis(template, form, ephem) ==
    IF NoField \in {form.name, form.birth_date, form.birth_time, form.prefecture}
    THEN Outcome([status |-> 400, error |-> "missing_information"], << >>)
    ELSE
    LET coordinates == DictGet(PREFECTURES, form.prefecture.v, default_coordinates)
        birth_datetime == strptime(form.birth_date, form.birth_time)
    IN
    IF ~birth_datetime.ok
    THEN Outcome([status |-> 400, error |-> "exception"], << >>)
    ELSE
    LET astro_data == calculate_planetary_positions(ephem)
        archetype == get_sixteen_archetype(astro_data.sun_element, astro_data.moon_element)
        comprehensive_data == generate_comprehensive_health_data(astro_data, archetype)
    IN  Outcome([ status |-> 200,
                  template |-> template,
                  data |-> comprehensive_data,
                  birth_place |-> form.prefecture.v ],
                << [fn |-> "ephem", body |-> "sun+moon", ok |-> ephem.ok,
                    date |-> birth_datetime, lat |-> coordinates[1],
                    lon |-> coordinates[2]] >>)

basic_diagnosis(form, ephem) == form_diagnosis("basic_report.html", form, ephem)

detailed_diagnosis(form, ephem) == form_diagnosis("detailed_report.html", form, ephem)

(***************************************************************************)
(* SpecForm: requests to the form handlers of app.py                       *)
(***************************************************************************)
Text(v) == [t |-> "text", v |-> v]

FormDates ==
    { [t |-> "date", year |-> y, month |-> m, day |-> d] :
        y \in {1999, 2024}, m \in {2, 12, 13}, d \in {1, 29, 30, 31} }
    \cup {Text("yesterday"), NoField}

FormTimes ==
    { [t |-> "time", hour |-> h, minute |-> m] : h \in {0, 8, 9, 24}, m \in {0, 59} }
    \cup {Text("noon"), NoField}

FormPrefectures == {Text("Tokyo-to"), Text("Okinawa-ken"), Text("Atlantis"), NoField}

IsFormRequest(req) ==
    \E op \in {"basic_diagnosis", "detailed_diagnosis"},
       name \in {Text("name"), NoField}, birth_date \in FormDates,
       birth_time \in FormTimes, prefecture \in FormPrefectures :
        req = [op |-> op,
               form |-> [name |-> name, birth_date |-> birth_date,
                         birth_time |-> birth_time, prefecture |-> prefecture]]

\* what PyEphem can do for a request: two longitudes, or an exception
FormEphemerides ==
    { [ok |-> FALSE, sun_longitude |-> 0, moon_longitude |-> 0] }
    \cup [ ok : {TRUE}, sun_longitude : {0, 15 * Unit, 100 * Unit + 4, 250 * Unit},
           moon_longitude : {0, 275 * Unit} ]

\* the outcomes a request can meet: all of them when PyEphem is consulted
FormEphemeridesFor(made_calls) ==
    IF made_calls = << >> THEN {[ok |-> FALSE, sun_longitude |-> 0, moon_longitude |-> 0]}
    ELSE FormEphemerides

InitForm ==
    /\ pc = "start"
    /\ IsFormRequest(request)
    /\ response = None
    /\ calls = << >>

BasicDiagnosis ==
    /\ pc = "start"
    /\ request.op = "basic_diagnosis"
    /\ \E ephem \in FormEphemeridesFor(basic_diagnosis(request.form, [ok |-> FALSE]).calls) :
         LET out == basic_diagnosis(request.form, ephem)
         IN  /\ response' = out.response
             /\ calls' = out.calls
    /\ pc' = "done"
    /\ UNCHANGED request

DetailedDiagnosis ==
    /\ pc = "start"
    /\ request.op = "detailed_diagnosis"
    /\ \E ephem \in FormEphemeridesFor(detailed_diagnosis(request.form, [ok |-> FALSE]).calls) :
         LET out == detailed_diagnosis(request.form, ephem)
         IN  /\ response' = out.response
             /\ calls' = out.calls
    /\ pc' = "done"
    /\ UNCHANGED request

NextForm ==
    \/ BasicDiagnosis
    \/ DetailedDiagnosis

SpecForm == InitForm /\ [][NextForm]_vars

(***************************************************************************)
(* Properties of the form handlers (checked under SpecForm)                *)
(***************************************************************************)
FormDone == pc = "done" /\ request.op \in {"basic_diagnosis", "detailed_diagnosis"}

\* the PyEphem computation of the request raised
EphemRaised == \E i \in 1..Len(calls) : calls[i].fn = "ephem" /\ ~calls[i].ok

\* C11 (as claimed): whenever the ephemeris computation raises for the Sun or
\* the Moon, the request ends in an error outcome, never in a successful
\* profile built from substituted positions, signs or elements.
C11_NoSwallowedError ==
    (FormDone /\ EphemRaised) => response.status # 200

(***************************************************************************)
(* Properties of input validation (checked under Spec)                     *)
(***************************************************************************)
DateTimeFields == {"birth_year", "birth_month", "birth_day", "birth_hour", "birth_minute"}

AllFieldsPresent(data) ==
    \A i \in 1..Len(required_fields) : required_fields[i] \in DOMAIN data

\* a date/time field that holds no number at all (a text, null); a numeric
\* string is counted as the integer it spells
NotANumber(x) == x.t \notin {"int", "str"}

\* the BirthInput invariant on a complete request body whose date/time fields
\* are numbers
BirthInputInvariant(data) ==
    /\ data.birth_year.v \in 1900 .. 2100
    /\ data.birth_month.v \in 1 .. 12
    /\ CalendarValid(data.birth_year.v, data.birth_month.v, data.birth_day.v)
    /\ data.birth_hour.v \in 0 .. 23
    /\ data.birth_minute.v \in 0 .. 59
    /\ data.birth_prefecture \in DOMAIN PREFECTURE_COORDINATES

\* invalid input: a missing field, a date/time field that is not a number or
\* is out of range, an unknown region, or a date that is not of the calendar
InvalidInput(data) ==
    \/ ~AllFieldsPresent(data)
    \/ /\ AllFieldsPresent(data)
       /\ \/ \E f \in DateTimeFields : NotANumber(data[f])
          \/ /\ \A f \in DateTimeFields : ~NotANumber(data[f])
             /\ ~BirthInputInvariant(data)

\* no call to the ephemeris provider was made: not swe.julday, not
\* init_swisseph, not swe.calc_ut
NoEphemerisCall ==
    \A i \in 1..Len(calls) : calls[i].fn \notin {"julday", "init_swisseph", "calc_ut"}

\* C12 (as claimed): in every execution of calculate_planets and of
\* calculate_planets_internal whose input is invalid, the request is rejected
\* without swe.julday, init_swisseph or swe.calc_ut ever being invoked.
C12_ValidatedBeforeEphemeris ==
    (PipelineDone /\ InvalidInput(request.data)) =>
        (~response.success /\ NoEphemerisCall)

(***************************************************************************)
(* The detailed report of astro_step4_ultimate_api_fixed.py                *)
(*                                                                         *)
(* A text is modelled by its length and its origin:                        *)
(*   [len |-> n, origin |-> "generated" | "fallback" | "enhanced_fallback"]*)
(* '未設定', the default name, is written "Unset_name".                     *)
(***************************************************************************)
\* longest script of generator outcomes (the generator repeats its script)
MaxScript == 3
\* largest max_retries given to safe_generate_content_with_retry
MaxRetries == 4

\* DETAILED_REPORT_CONFIG['target_length']
target_length == 12000

\* the length a generated text must exceed: len(response.text) > 500
min_text_length == 500

\* max_retries as generate_enhanced_section and generate_additional_content
\* pass it
section_max_retries == 3

\* len() of generate_section_fallback(''): the fixed part of the fallback text
section_fallback_length == 239

\* the length of the prompt preview prompt[:100]; every prompt is longer
prompt_preview_length == 100

\* len() of base_content of generate_enhanced_fallback_sections without name
\* and archetype, plus the brackets and the word after the section name
enhanced_fallback_length == 221

\* len('\n\n'), the separator of the sections in the report
separator_length == 2

\* the section names, in the order the sections are generated
section_names ==
    << "personality_analysis", "constitution_analysis", "health_guidance",
       "lifestyle_recommendations", "dietary_advice", "spiritual_guidance" >>

\* len() of the strings that are interpolated into texts: the archetype
\* labels (with their Japanese gloss), the section names, the names
StrLen ==
    [ k \in {} |-> 0 ]
    @@ ("The Supernova" :> 18)
    @@ ("The Magma" :> 14)
    @@ ("The Evangelist" :> 19)
    @@ ("The Geyser" :> 15)
    @@ ("The Volcano" :> 15)
    @@ ("The Bedrock" :> 15)
    @@ ("The Garden" :> 14)
    @@ ("The Spring" :> 13)
    @@ ("The Lightning" :> 17)
    @@ ("The Breeze" :> 15)
    @@ ("The Hurricane" :> 20)
    @@ ("The Mist" :> 11)
    @@ ("The Steam" :> 13)
    @@ ("The River" :> 12)
    @@ ("The Rain" :> 11)
    @@ ("The Ocean" :> 12)
    @@ ("personality_analysis" :> 20)
    @@ ("constitution_analysis" :> 21)
    @@ ("health_guidance" :> 15)
    @@ ("lifestyle_recommendations" :> 25)
    @@ ("dietary_advice" :> 14)
    @@ ("spiritual_guidance" :> 18)
    @@ ("name" :> 4)
    @@ ("Unset_name" :> 3)

Text_of(len, origin) == [len |-> len, origin |-> origin]

\* the one element of a singleton set: { e(x) : x \in {v} } computes v once
\* and names its value x
Only(S) == CHOOSE x \in S : TRUE

generate_section_fallback(preview_length) ==
    Text_of(section_fallback_length + preview_length, "fallback")

\* the k-th answer of the text generator (k = 1, 2, ...), which repeats script
script_at(script, k) == script[((k - 1) % Len(script)) + 1]

\* the answer has no text: response is None, or response.text is empty
NoText(answer) == answer.kind = "none" \/ (answer.kind = "text" /\ answer.len = 0)

\* faulty variant: a text of any length is accepted
RECURSIVE retry_from_accepting_short(_, _, _, _, _)
retry_from_accepting_short(attempt, max_retries, script, k, log) ==
    IF attempt >= max_retries
    THEN [text |-> generate_section_fallback(prompt_preview_length), k |-> k, calls |-> log]
    ELSE LET answer == script_at(script, k)
             log2 == Append(log, [fn |-> "generate_content", body |-> "",
                                  ok |-> answer.kind # "raise", attempt |-> attempt,
                                  answer |-> answer])
         IN  IF answer.kind = "text" /\ answer.len > 0
             THEN [text |-> Text_of(answer.len, "generated"), k |-> k + 1, calls |-> log2]
             ELSE retry_from_accepting_short(attempt + 1, max_retries, script, k + 1, log2)

\* the loop of safe_generate_content_with_retry from one attempt on, the
\* generator being at its k-th answer: the text returned, the generator's
\* position afterwards, and the calls made.  An answer without text makes
\* len(0) raise TypeError in the else branch, inside the try: like a raising
\* generator it ends in the except clause, which sleeps unless the attempt is
\* the last
RECURSIVE retry_from(_, _, _, _, _)
retry_from(attempt, max_retries, script, k, log) ==
    IF attempt >= max_retries
    THEN [text |-> generate_section_fallback(prompt_preview_length), k |-> k, calls |-> log]
    ELSE LET answer == script_at(script, k)
             log2 == Append(log, [fn |-> "generate_content", body |-> "",
                                  ok |-> answer.kind # "raise", attempt |-> attempt,
                                  answer |-> answer])
             log3 == IF (answer.kind = "raise" \/ NoText(answer)) /\ attempt < max_retries - 1
                     THEN Append(log2, [fn |-> "sleep", body |-> "", ok |-> TRUE,
                                        seconds |-> 2 ^ attempt])
                     ELSE log2
         IN  IF answer.kind = "text" /\ answer.len > min_text_length
             THEN [text |-> Text_of(answer.len, "generated"), k |-> k + 1, calls |-> log2]
             ELSE retry_from(attempt + 1, max_retries, script, k + 1, log3)

safe_generate_content_with_retry(script, k, log, max_retries) ==
    retry_from(0, max_retries, script, k, log)

\* the sum of the lengths of the texts of a sequence of sections
RECURSIVE total_length(_)
total_length(sections) ==
    IF sections = << >> THEN 0
    ELSE sections[1].text.len + total_length(Tail(sections))

generate_enhanced_fallback_sections(name, archetype) ==
    [ i \in 1..Len(section_names) |->
        [ name |-> section_names[i],
          text |-> Text_of(enhanced_fallback_length + StrLen[name] + StrLen[archetype]
                             + StrLen[section_names[i]], "enhanced_fallback") ] ]

\* the six calls of generate_enhanced_section, from the i-th on
RECURSIVE generate_sections_from(_, _, _, _, _)
generate_sections_from(i, sections, script, k, log) ==
    IF i > Len(section_names) THEN [sections |-> sections, k |-> k, calls |-> log]
    ELSE Only({ generate_sections_from(i + 1,
                    Append(sections, [name |-> section_names[i], text |-> r.text]),
                    script, r.k, r.calls) :
                r \in {safe_generate_content_with_retry(script, k, log,
                                                        section_max_retries)} })

\* faulty variant: the completion is also generated when the six sections hold
\* exactly the target length
generate_diagnosis_sections_enhanced_at_most(name, archetype, gen, log) ==
    LET log1 == Append(log, [fn |-> "GenerativeModel", body |-> "", ok |-> gen.init_ok])
    IN
    IF ~gen.init_ok
    THEN [sections |-> generate_enhanced_fallback_sections(name, archetype), calls |-> log1]
    ELSE
    Only({ IF total_length(six.sections) <= target_length
           THEN Only({ [ sections |-> Append(six.sections,
                                             [name |-> "additional_insights",
                                              text |-> additional_content.text]),
                         calls |-> additional_content.calls ] :
                       additional_content \in
                           {safe_generate_content_with_retry(gen.script, six.k, six.calls,
                                                             section_max_retries)} })
           ELSE [sections |-> six.sections, calls |-> six.calls] :
           six \in {generate_sections_from(1, << >>, gen.script, 1, log1)} })

\* generate_diagnosis_sections_enhanced under the generator gen: the sections
\* in the order of the dict, and the calls made.  gen.init_ok = FALSE is
\* genai.GenerativeModel raising, which the except clause answers with the
\* enhanced fallback sections
generate_diagnosis_sections_enhanced(name, archetype, gen, log) ==
    LET log1 == Append(log, [fn |-> "GenerativeModel", body |-> "", ok |-> gen.init_ok])
    IN
    IF ~gen.init_ok
    THEN [sections |-> generate_enhanced_fallback_sections(name, archetype), calls |-> log1]
    ELSE
    Only({ IF total_length(six.sections) < target_length
           THEN Only({ [ sections |-> Append(six.sections,
                                             [name |-> "additional_insights",
                                              text |-> additional_content.text]),
                         calls |-> additional_content.calls ] :
                       additional_content \in
                           {safe_generate_content_with_retry(gen.script, six.k, six.calls,
                                                             section_max_retries)} })
           ELSE [sections |-> six.sections, calls |-> six.calls] :
           six \in {generate_sections_from(1, << >>, gen.script, 1, log1)} })

\* JSON null, the value of data.get(key) for a missing key
Null == [t |-> "null", v |-> 0]

\* the archetype of generate_detailed_diagnosis for the planets mapping: a
\* missing body or element counts as fire (sun) or water (moon), a pair
\* outside the table gives The Bedrock
detailed_archetype(planets) ==
    LET sun_element == DictGet(DictGet(planets, "sun", EmptyDict), "element", "Fire")
        moon_element == DictGet(DictGet(planets, "moon", EmptyDict), "element", "Water")
    IN  DictGet(ARCHETYPE_DATABASE, <<sun_element, moon_element>>, "The Bedrock")

\* determine_archetype, from the two sign names
determine_archetype(sun_sign, moon_sign) ==
    LET sun_element == DictGet(SIGN_ELEMENTS, sun_sign, "Fire")
        moon_element == DictGet(SIGN_ELEMENTS, moon_sign, "Water")
    IN  DictGet(ARCHETYPE_DATABASE, <<sun_element, moon_element>>, "The Bedrock")

\* the handler of /api/generate-detailed-report on the request body data (None
\* when the request has no JSON body), under the provider's outcome eph and
\* the text generator gen
generate_detailed_diagnosis(data, eph, gen) ==
    IF data = None
    THEN Outcome(ErrorResponse(500, "system_error", "AttributeError"), << >>)
    ELSE
    LET name == DictGet(data, "name", "Unset_name")
        planets_data ==
            [ name |-> name,
              birth_year |-> DictGet(data, "year", Null),
              birth_month |-> DictGet(data, "month", Null),
              birth_day |-> DictGet(data, "day", Null),
              birth_hour |-> DictGet(data, "hour", Null),
              birth_minute |-> DictGet(data, "minute", Null),
              birth_prefecture |-> DictGet(data, "birth_prefecture", NoName) ]
    IN
    Only({
    LET planets_response == planets_out.response
    IN
    IF ~planets_response.success
    THEN Outcome([ status |-> 400, success |-> FALSE, error |-> planets_response.error,
                   arg |-> planets_response.arg ],
                 planets_out.calls)
    ELSE
    LET planets == planets_response.planets
        archetype == detailed_archetype(planets)
        element_balance == calculate_element_balance(planets)
    IN
    Only({
    Only({ Outcome([ status |-> 200,
                     success |-> TRUE,
                     detailed_report |-> Text_of(final_char_count, "joined"),
                     sections |-> generated.sections,
                     character_count |-> final_char_count,
                     target_achieved |-> (final_char_count >= target_length),
                     archetype |-> archetype,
                     element_balance |-> element_balance ],
                   generated.calls) :
           final_char_count \in
               { total_length(generated.sections)
                   + separator_length * (Len(generated.sections) - 1) } }) :
    generated \in {generate_diagnosis_sections_enhanced(name, archetype, gen,
                                                        planets_out.calls)} }) :
    planets_out \in {calculate_planets_internal(planets_data, eph)} })

(***************************************************************************)
(* SpecReport: requests for a detailed report, and text generations        *)
(***************************************************************************)
\* what the text generator can answer to one call
GeneratorAnswers ==
    { [kind |-> "raise", len |-> 0], [kind |-> "none", len |-> 0] }
    \cup { [kind |-> "text", len |-> n] : n \in {0, 500, 501, 2000, 12000} }

Scripts == UNION { [1..n -> GeneratorAnswers] : n \in 1..MaxScript }

Generators ==
    { [init_ok |-> FALSE, script |-> << [kind |-> "raise", len |-> 0] >>] }
    \cup { [init_ok |-> TRUE, script |-> s] : s \in Scripts }

\* the generator of a request that never reaches it
NoGenerator == [init_ok |-> FALSE, script |-> << [kind |-> "raise", len |-> 0] >>]

GeneratorsFor(made_calls) ==
    IF \E i \in 1..Len(made_calls) : made_calls[i].fn = "GenerativeModel"
    THEN Generators ELSE {NoGenerator}

ReportData(year, month, day, hour, minute, prefecture) ==
    [ name |-> "name", year |-> year, month |-> month, day |-> day, hour |-> hour,
      minute |-> minute, birth_prefecture |-> prefecture ]

BaseReportData == ReportData(IntV(2024), IntV(3), IntV(1), IntV(8), IntV(59), "Tokyo-to")

IsReportRequest(req) ==
    \/ \E year \in {1899, 1900, 2024, 2101}, month \in {2, 13}, day \in {1, 30},
          hour \in {0, 9, 24}, minute \in {0, 60}, prefecture \in {"Tokyo-to", "Atlantis"} :
         req = [op |-> "generate_detailed_diagnosis",
                data |-> ReportData(IntV(year), IntV(month), IntV(day), IntV(hour),
                                    IntV(minute), prefecture)]
    \/ \E f \in {"year", "month", "day", "hour", "minute"}, x \in OddValues :
         req = [op |-> "generate_detailed_diagnosis",
                data |-> [BaseReportData EXCEPT ![f] = x]]
    \/ \E f \in DOMAIN BaseReportData :
         req = [op |-> "generate_detailed_diagnosis", data |-> Without(BaseReportData, f)]
    \/ req = [op |-> "generate_detailed_diagnosis", data |-> None]
    \/ \E max_retries \in 0..MaxRetries :
         req = [op |-> "safe_generate_content_with_retry", max_retries |-> max_retries]

InitReport ==
    /\ pc = "start"
    /\ IsReportRequest(request)
    /\ response = None
    /\ calls = << >>

GenerateDetailedDiagnosis ==
    /\ pc = "start"
    /\ request.op = "generate_detailed_diagnosis"
    /\ \E eph \in EphemeridesFor(
                     generate_detailed_diagnosis(request.data, NoEphemeris, NoGenerator).calls) :
         \E gen \in GeneratorsFor(
                      generate_detailed_diagnosis(request.data, eph, NoGenerator).calls) :
           LET out == generate_detailed_diagnosis(request.data, eph, gen)
           IN  /\ response' = out.response
               /\ calls' = out.calls
    /\ pc' = "done"
    /\ UNCHANGED request

SafeGenerateContentWithRetry ==
    /\ pc = "start"
    /\ request.op = "safe_generate_content_with_retry"
    /\ \E script \in Scripts :
         LET r == safe_generate_content_with_retry(script, 1, << >>, request.max_retries)
         IN  /\ response' = [ op |-> "safe_generate_content_with_retry",
                              raised |-> FALSE,
                              text |-> r.text,
                              script |-> script ]
             /\ calls' = r.calls
    /\ pc' = "done"
    /\ UNCHANGED request

NextReport ==
    \/ GenerateDetailedDiagnosis
    \/ SafeGenerateContentWithRetry

SpecReport == InitReport /\ [][NextReport]_vars

(***************************************************************************)
(* Properties of the detailed report (checked under SpecReport)            *)
(***************************************************************************)
ReportDone == pc = "done" /\ request.op = "generate_detailed_diagnosis"

\* the request body of a report is a BirthInput: every field present, the
\* date/time fields integers, and the invariant year in [1900, 2100], month
\* in [1, 12], day valid for the month, hour in [0, 23], minute in [0, 59],
\* region in the table
ReportBirthInput(data) ==
    /\ {"year", "month", "day", "hour", "minute", "birth_prefecture"} \subseteq DOMAIN data
    /\ \A f \in {"year", "month", "day", "hour", "minute"} : data[f].t = "int"
    /\ data.year.v \in 1900 .. 2100
    /\ data.month.v \in 1 .. 12
    /\ CalendarValid(data.year.v, data.month.v, data.day.v)
    /\ data.hour.v \in 0 .. 23
    /\ data.minute.v \in 0 .. 59
    /\ data.birth_prefecture \in DOMAIN PREFECTURE_COORDINATES

\* a body position was produced: a query of the provider succeeded
PositionProduced == \E i \in 1..Len(calls) : calls[i].fn = "calc_ut" /\ calls[i].ok

\* C13 (as claimed): a profile is computed only for a BirthInput that satisfies
\* the invariant; generate_detailed_diagnosis (through
\* calculate_planets_internal) rejects an input that violates it and produces
\* no body position.
C13_BirthInputInvariant ==
    (ReportDone /\ ~ReportBirthInput(request.data)) =>
        (~response.success /\ ~PositionProduced)

(***************************************************************************)
(* Properties of the region lookup (checked under SpecForm)                *)
(***************************************************************************)
\* the region of a form request is a key of the table
KnownFormRegion(form) ==
    form.prefecture # NoField /\ form.prefecture.v \in DOMAIN PREFECTURES

\* C14 (as claimed): a region that is absent from the table always produces
\* an error outcome; no handler computes a profile for an unknown region by
\* substituting default coordinates.
C14_UnknownRegionRejected ==
    (FormDone /\ ~KnownFormRegion(request.form)) =>
        /\ response.status # 200
        /\ \A i \in 1..Len(calls) : calls[i].fn # "ephem"

(***************************************************************************)
(* Properties of the closed enumerations (checked under SpecProfile)       *)
(***************************************************************************)
\* C15 (as claimed): a sign or element outside the closed enumerations is
\* reported as an error, never silently defaulted: no successful response
\* carries a placeholder, and archetype resolution and element balance never
\* replace a missing or unknown element by a default element or a default
\* archetype label.
C15_NoSilentDefault ==
    /\ Diagnosed =>
         /\ response.sun_element \in Elements
         /\ response.moon_element \in Elements
         /\ response.archetype # "Unknown_archetype"
    /\ HasBalance =>
         \A b \in DOMAIN request.planets : request.planets[b] \in ValidBodyDicts

(***************************************************************************)
(* Properties of the time normalisation (checked under Spec)               *)
(***************************************************************************)
\* the regions of the requests that are keys of the table
ValidRegions == PrefectureSamples \cap DOMAIN PREFECTURE_COORDINATES

\* the same request body for another region
InRegion(data, prefecture) == [data EXCEPT !.birth_prefecture = prefecture]

\* a response without the echo of the request's region
WithoutRegion(r) ==
    IF r.success THEN [r EXCEPT !.birth_info.birth_prefecture = NoName] ELSE r

\* C16: the conversion to UTC subtracts one fixed offset of 9 hours whatever
\* the region: two calculate_planets requests that differ only in the (valid)
\* region are normalised to the same instant (the same arguments of
\* swe.julday, 9 hours before the civil time) and, the provider giving the
\* same outcome to both, return identical body positions.
C16_RegionIndependent ==
    (/\ request.op = "calculate_planets"
     /\ AllFieldsPresent(request.data)
     /\ request.data.birth_prefecture \in ValidRegions) =>
        \A prefecture \in ValidRegions :
            LET other == InRegion(request.data, prefecture)
            IN  /\ pc = "done" /\ Normalised =>
                     /\ calls[1].args = calculate_planets(other, NoEphemeris).calls[1].args
                     /\ calls[1].args =
                            julday(minus_hours(
                                datetime_new(py_int(request.data.birth_year).v,
                                             py_int(request.data.birth_month).v,
                                             py_int(request.data.birth_day).v,
                                             py_int(request.data.birth_hour).v,
                                             py_int(request.data.birth_minute).v), 9))
                /\ pc = "start" =>
                     \A eph \in EphemeridesFor(calculate_planets(request.data,
                                                                   NoEphemeris).calls) :
                        Only({ /\ pair[1].calls = pair[2].calls
                               /\ WithoutRegion(pair[1].response)
                                    = WithoutRegion(pair[2].response) :
                               pair \in {<<calculate_planets(request.data, eph),
                                           calculate_planets(other, eph)>>} })

C16_Witness ==
    /\ PipelineDone
    /\ request.op = "calculate_planets"
    /\ request.data.birth_prefecture = "Okinawa-ken"
    /\ response.success
    /\ calls[1].args = [year |-> 2023, month |-> 12, day |-> 31, hour |-> 15 * 60 + 59]

\* the Julian Day Number of a calendar date (Gregorian), counted from day
\* 2400000 to keep the minutes within TLC's integers
JulianDayNumber(year, month, day) ==
    LET a == (14 - month) \div 12
        y == year + 4800 - a
        m == month + 12 * a - 3
    IN  day + (153 * m + 2) \div 5 + 365 * y + y \div 4 - y \div 100 + y \div 400
            - 32045 - 2400000

\* the instant, in minutes, that arguments of swe.julday stand for
InstantOf(args) == 1440 * JulianDayNumber(args.year, args.month, args.day) + args.hour

\* the instant of a civil date and time, in minutes, on the civil clock
CivilInstant(year, month, day, hour, minute) ==
    1440 * JulianDayNumber(year, month, day) + 60 * hour + minute

\* arguments of swe.julday compared as the code passes them: year, month, day,
\* then hour + minute / 60
EarlierArgs(a, b) ==
    \/ a.year < b.year
    \/ a.year = b.year /\ a.month < b.month
    \/ a.year = b.year /\ a.month = b.month /\ a.day < b.day
    \/ a.year = b.year /\ a.month = b.month /\ a.day = b.day /\ a.hour < b.hour

\* civil date/times to compare a request with: around the bounds of the hours
\* that cross midnight, at the ends of months and years
ReferenceTimes ==
    { BirthData(IntV(y), IntV(m), IntV(d), IntV(h), IntV(mi), "Tokyo-to") :
        y \in {1900, 2024, 2100}, m \in {1, 3, 12}, d \in {1, 31},
        h \in {8, 9}, mi \in {0, 59} }

CivilInstantOf(data) ==
    CivilInstant(data.birth_year.v, data.birth_month.v, data.birth_day.v,
                 data.birth_hour.v, data.birth_minute.v)

\* the arguments of swe.julday that a handler derives from a request body
JuldayArgs(op, data) ==
    IF op = "calculate_planets"
    THEN calculate_planets(data, NoEphemeris).calls[1].args
    ELSE calculate_planets_internal(data, NoEphemeris).calls[1].args

\* a request with every field present, integer date/time fields and a valid
\* civil date and time in a known region
ValidCivilTime(data) ==
    /\ AllFieldsPresent(data)
    /\ \A f \in DateTimeFields : data[f].t = "int"
    /\ BirthInputInvariant(data)

\* C17: the normalised instant is strictly monotonic in civil time: the UTC
\* components passed to swe.julday stand for the instant 9 hours before the
\* civil time, and of two valid civil date/times a < b the arguments derived
\* for a are earlier than those derived for b, also when the subtraction
\* crosses a day, month or year boundary (civil times 00:00 to 08:59).
C17_MonotonicInstant ==
    (/\ request.op \in {"calculate_planets", "calculate_planets_internal"}
     /\ ValidCivilTime(request.data)) =>
        /\ pc = "done" =>
             /\ Normalised
             /\ InstantOf(calls[1].args) = CivilInstantOf(request.data) - 9 * 60
             /\ calls[1].args.month \in 1 .. 12
             /\ calls[1].args.day \in 1 .. 31
             /\ calls[1].args.hour \in 0 .. (24 * 60 - 1)
        /\ pc = "start" =>
             Only({ \A b \in ReferenceTimes :
                       LET args_b == JuldayArgs(request.op, b)
                       IN  /\ CivilInstantOf(request.data) < CivilInstantOf(b)
                                => EarlierArgs(args_a, args_b)
                           /\ CivilInstantOf(b) < CivilInstantOf(request.data)
                                => EarlierArgs(args_b, args_a)
                           /\ CivilInstantOf(b) = CivilInstantOf(request.data)
                                => args_a = args_b :
                    args_a \in {JuldayArgs(request.op, request.data)} })

C17_Witness ==
    /\ PipelineDone
    /\ request.op = "calculate_planets_internal"
    /\ request.data.birth_year = IntV(2024)
    /\ request.data.birth_month = IntV(3)
    /\ request.data.birth_day = IntV(1)
    /\ request.data.birth_hour = IntV(8)
    /\ request.data.birth_minute = IntV(59)
    /\ Normalised
    /\ calls[1].args = [year |-> 2024, month |-> 2, day |-> 29, hour |-> 23 * 60 + 59]

(***************************************************************************)
(* Properties of the position resolution (checked under Spec)              *)
(***************************************************************************)
IsQuery(call) == call.fn = "calc_ut"

\* the queries of the provider made by the request, in order
Queries == SelectSeq(calls, IsQuery)

\* C18: position resolution is fail-fast and not retried: within one profile
\* computation the provider is queried at most once per body, in the order
\* sun, moon, mercury, venus, mars, jupiter, saturn, and after the first body
\* whose query fails no further body is queried before the failure is
\* returned.
C18_FailFast ==
    PipelineDone =>
        /\ Len(Queries) <= Len(planet_ids)
        /\ \A i \in 1..Len(Queries) : Queries[i].body = planet_ids[i]
        /\ \A i \in 1..(Len(Queries) - 1) : Queries[i].ok
        /\ \A i \in 1..Len(calls) :
             (IsQuery(calls[i]) /\ ~calls[i].ok) =>
                 /\ i = Len(calls)
                 /\ ~response.success
                 /\ response.error = "calc_failed"
                 /\ response.arg = calls[i].body
        /\ response.success => Len(Queries) = Len(planet_ids)

C18_Witness ==
    /\ PipelineDone
    /\ request.op = "calculate_planets"
    /\ response.status = 500
    /\ response.arg = "venus"
    /\ Len(Queries) = 4
    /\ ~Queries[4].ok

(***************************************************************************)
(* Properties of the text generation (checked under SpecReport)            *)
(***************************************************************************)
\* C19 (as claimed): every successful response of generate_detailed_diagnosis
\* has character_count >= 12000 and target_achieved true, whatever the text
\* generator returns.
C19_TwelveThousand ==
    (ReportDone /\ response.success) =>
        (response.character_count >= 12000 /\ response.target_achieved)

RetryDone == pc = "done" /\ request.op = "safe_generate_content_with_retry"

IsGeneration(call) == call.fn = "generate_content"

\* the calls of the generator made by the operation, in order
Generations == SelectSeq(calls, IsGeneration)

\* an answer of the generator with a text longer than 500 characters
LongText(answer) == answer.kind = "text" /\ answer.len > 500

\* the attempts (1 .. max_retries) that the generator would answer with a
\* long text
LongAttempts == { j \in 1..request.max_retries : LongText(script_at(response.script, j)) }

\* C20: safe_generate_content_with_retry always terminates with a text: it
\* calls the generator at most max_retries times, returns the text of the
\* first attempt whose text is longer than 500 characters without making any
\* later attempt, and when every attempt raises or yields a missing, empty or
\* short text it returns the fallback section text.
C20_RetryTerminates ==
    RetryDone =>
        /\ Len(Generations) <= request.max_retries
        /\ \A i \in 1..Len(Generations) :
             Generations[i].answer = script_at(response.script, i)
        /\ LongAttempts # {} =>
             LET first == CHOOSE j \in LongAttempts : \A l \in LongAttempts : j <= l
             IN  /\ Len(Generations) = first
                 /\ response.text.origin = "generated"
                 /\ response.text.len = script_at(response.script, first).len
                 /\ calls[Len(calls)] = Generations[first]
        /\ LongAttempts = {} =>
             /\ Len(Generations) = request.max_retries
             /\ response.text = generate_section_fallback(100)
        /\ \A i \in 1..Len(calls) :
             calls[i].fn = "sleep" => calls[i].seconds <= 2 ^ request.max_retries

C20_Witness ==
    /\ RetryDone
    /\ request.max_retries = 3
    /\ Len(response.script) = 3
    /\ response.script[1].kind = "raise"
    /\ response.script[2] = [kind |-> "text", len |-> 500]
    /\ response.script[3] = [kind |-> "text", len |-> 2000]
    /\ response.text = [len |-> 2000, origin |-> "generated"]
    /\ Len(Generations) = 3

(***************************************************************************)
(* Properties of the report sections (checked under SpecReport)            *)
(***************************************************************************)
\* the construction of the generative model raised
ModelRaised == \E i \in 1..Len(calls) : calls[i].fn = "GenerativeModel" /\ ~calls[i].ok

\* the names of the sections, in the order of the mapping
SectionNames == [ i \in 1..Len(response.sections) |-> response.sections[i].name ]

\* the characters of the first six sections together
SixSectionsLength ==
    response.sections[1].text.len + response.sections[2].text.len
    + response.sections[3].text.len + response.sections[4].text.len
    + response.sections[5].text.len + response.sections[6].text.len

\* C21: generate_diagnosis_sections_enhanced always returns a mapping with the
\* six section keys personality_analysis, constitution_analysis,
\* health_guidance, lifestyle_recommendations, dietary_advice and
\* spiritual_guidance, generated in that order; without an exception it holds
\* the extra key additional_insights if and only if the six sections together
\* have fewer than 12,000 characters, and when a step raises it returns
\* exactly the six fallback sections.
C21_Sections ==
    (ReportDone /\ response.success) =>
        /\ Len(response.sections) >= 6
        /\ SubSeq(SectionNames, 1, 6) =
             << "personality_analysis", "constitution_analysis", "health_guidance",
                "lifestyle_recommendations", "dietary_advice", "spiritual_guidance" >>
        /\ ~ModelRaised =>
             /\ \A i \in 1..Len(response.sections) :
                  response.sections[i].text.origin \in {"generated", "fallback"}
             /\ IF SixSectionsLength < 12000
                THEN /\ Len(response.sections) = 7
                     /\ SectionNames[7] = "additional_insights"
                ELSE Len(response.sections) = 6
        /\ ModelRaised =>
             /\ Len(response.sections) = 6
             /\ \A i \in 1..6 : response.sections[i].text.origin = "enhanced_fallback"
             /\ \A i \in 1..Len(calls) : calls[i].fn # "generate_content"

C21_Witness ==
    /\ ReportDone
    /\ response.success
    /\ ~ModelRaised
    /\ SixSectionsLength = 12000
    /\ Len(response.sections) = 6

(***************************************************************************)
(* The beta gate of astro_step4_ultimate_api_fixed.py                      *)
(*                                                                         *)
(* A header, a query parameter or a JSON field that is absent (None) is    *)
(* written "", like an empty one: both are false for Python's `or` and     *)
(* both differ from the password.                                          *)
(***************************************************************************)
\* BETA_PASSWORD, by its default
BETA_PASSWORD == "astro2024beta"

\* a or b, on strings and None
py_or(a, b) == IF a # "" THEN a ELSE b

\* the truth value of request.json: a body that is absent or an empty object
\* is false
json_truthy(json) == json # None /\ DOMAIN json # {}

\* beta_key of beta_required.  The conditional expression binds weaker than
\* `or`: the whole chain header or query or field is evaluated only if
\* request.json is true, and beta_key is None otherwise
beta_key_of(req) ==
    IF json_truthy(req.json)
    THEN py_or(py_or(req.header, req.arg), DictGet(req.json, "beta_key", ""))
    ELSE ""

\* the decorated handler on a request: run is the outcome of the wrapped
\* handler, were it executed
beta_required(req, run) ==
    IF req.flask_env = "development" THEN run
    ELSE IF beta_key_of(req) # BETA_PASSWORD
    THEN Outcome(ErrorResponse(401, "beta_key_required", ""), << >>)
    ELSE run

\* the wrapped handler of /api/calculate-planets on the JSON body: `field not
\* in data` raises TypeError on a missing body, which the except clause
\* answers with 500
run_calculate_planets(json, eph) ==
    Only({ Outcome(out.response,
                   << [fn |-> "handler", body |-> "calculate_planets", ok |-> TRUE] >>
                     \o out.calls) :
           out \in { IF json = None
                     THEN Outcome(ErrorResponse(500, "exception", "TypeError"), << >>)
                     ELSE calculate_planets(json, eph) } })

post_calculate_planets(req, eph) == beta_required(req, run_calculate_planets(req.json, eph))

(***************************************************************************)
(* SpecBeta: requests to the gated endpoint /api/calculate-planets         *)
(***************************************************************************)
KeySamples == {"", BETA_PASSWORD, "guess"}

JsonSamples ==
    { None, EmptyDict, BaseData,
      BirthData(IntV(2024), IntV(2), IntV(30), IntV(0), IntV(0), "Tokyo-to") }
    \cup { BaseData @@ ("beta_key" :> k) : k \in KeySamples }
    \cup { ("beta_key" :> k) : k \in KeySamples }

IsBetaRequest(req) ==
    \E flask_env \in {"development", "production"},
       header \in KeySamples, arg \in KeySamples, json \in JsonSamples :
        req = [op |-> "post_calculate_planets", flask_env |-> flask_env,
               header |-> header, arg |-> arg, json |-> json]

InitBeta ==
    /\ pc = "start"
    /\ IsBetaRequest(request)
    /\ response = None
    /\ calls = << >>

PostCalculatePlanets ==
    /\ pc = "start"
    /\ request.op = "post_calculate_planets"
    /\ \E eph \in EphemeridesFor(
                     SelectSeq(post_calculate_planets(request, NoEphemeris).calls,
                               IsQuery)) :
         LET out == post_calculate_planets(request, eph)
         IN  /\ response' = out.response
             /\ calls' = out.calls
    /\ pc' = "done"
    /\ UNCHANGED request

NextBeta == PostCalculatePlanets

SpecBeta == InitBeta /\ [][NextBeta]_vars

(***************************************************************************)
(* Properties of the beta gate (checked under SpecBeta)                    *)
(***************************************************************************)
BetaDone == pc = "done" /\ request.op = "post_calculate_planets"

\* the wrapped handler was executed for the request
HandlerExecuted == \E i \in 1..Len(calls) : calls[i].fn = "handler"

\* the request presents the password in the X-Beta-Key header, in the beta
\* query parameter or in the beta_key field of the JSON body
PresentsPassword(req) ==
    \/ req.header = "astro2024beta"
    \/ req.arg = "astro2024beta"
    \/ /\ req.json # None
       /\ "beta_key" \in DOMAIN req.json
       /\ req.json["beta_key"] = "astro2024beta"

\* C22 (as claimed): outside development mode, beta_required admits a request
\* to the wrapped handler if and only if it presents the beta password in the
\* header, in the query parameter or in the JSON field; every other request
\* gets a 401 response and the wrapped handler is never executed for it.
C22_BetaAdmission ==
    (BetaDone /\ request.flask_env # "development") =>
        /\ HandlerExecuted <=> PresentsPassword(request)
        /\ ~PresentsPassword(request) => (response.status = 401 /\ calls = << >>)

(***************************************************************************)
(* Agreement of the two diagnosis paths (checked under SpecProfile)        *)
(***************************************************************************)
\* simple_diagnosis has run on a request with a name and a planets mapping that
\* holds sun and moon
SimpleDiagnosisRun ==
    /\ pc = "done"
    /\ response.op = "simple_diagnosis"
    /\ {"name", "planets"} \subseteq DOMAIN request
    /\ {"sun", "moon"} \subseteq DOMAIN request.planets

\* the sign names determine_archetype may be given
SignNames == DOMAIN SIGN_ELEMENTS \cup {"Unknown_sign"}

\* the body dict carries the element of the sign; a sign outside SIGN_ELEMENTS
\* goes with a missing or unknown element
SignCarries(sign, body) ==
    IF sign \in DOMAIN SIGN_ELEMENTS
    THEN body = [element |-> SIGN_ELEMENTS[sign]]
    ELSE body \notin ValidBodyDicts

\* C23 (as claimed): the two diagnosis paths resolve the archetype
\* identically: for every sun/moon element pair of a planets mapping, a
\* missing or unknown element included, simple_diagnosis,
\* generate_detailed_diagnosis and determine_archetype return the same
\* archetype label.
C23_SameArchetype ==
    SimpleDiagnosisRun =>
        /\ response.success
        /\ response.archetype = detailed_archetype(request.planets)
        /\ \A sun_sign \in SignNames, moon_sign \in SignNames :
             ( /\ SignCarries(sun_sign, request.planets["sun"])
               /\ SignCarries(moon_sign, request.planets["moon"]) )
             => determine_archetype(sun_sign, moon_sign) = response.archetype

\* C24 (as claimed): the two element balance computations agree: for every
\* planets mapping accepted by simple_diagnosis (at least sun and moon, each
\* body carrying any element value or none), the balance computed inline in
\* simple_diagnosis equals the balance calculate_element_balance returns for
\* the same mapping.
C24_SameBalance ==
    Diagnosed => response.element_balance = calculate_element_balance(request.planets)

(***************************************************************************)
(* The rounded values of a position (checked under SpecClassify)           *)
(***************************************************************************)
\* the 30-degree sector of a longitude given in hundredths of a degree
sector_of_rounded(longitude) == longitude \div (30 * 100)

\* C25 (as claimed): the values reported in a position stay in range and
\* consistent after rounding: for every provider longitude in [0, 360), the
\* returned degree (rounded to 2 decimals) satisfies 0 <= degree < 30, the
\* returned longitude (rounded to 2 decimals) satisfies 0 <= longitude < 360,
\* and the returned sign is the sign of the 30-degree sector that contains the
\* returned longitude.
C25_RoundedInRange ==
    (ClassifiedByApi /\ InProviderRange(response.calc_ut.longitude)) =>
        /\ 0 <= response.position.degree
        /\ response.position.degree < 30 * 100
        /\ 0 <= response.position.longitude
        /\ response.position.longitude < 360 * 100
        /\ response.position.sign
             = get_sign_name_japanese(sector_of_rounded(response.position.longitude))

====
